---- MODULE Spec2Model ----
(***************************************************************************)
(* A model of whisper-writer's recording/transcription session             *)
(* (src/src/result_thread.py, class ResultThread) together with the        *)
(* external callers of stop_recording() and stop() (src/src/main.py) and   *)
(* the audio callback thread of the input stream.                          *)
(*                                                                         *)
(* One behaviour of Spec is one session: a ResultThread is constructed,    *)
(* started, runs run() step by step on the worker thread while the audio   *)
(* callback delivers frames and the controller may call stop_recording()   *)
(* and stop().                                                             *)
(*                                                                         *)
(* Abstractions: a frame is its voice-activity classification (a BOOLEAN); *)
(* the recording is the number of frames it holds; `now` is the time since *)
(* _record_audio was entered, counted in frame periods (one per callback), *)
(* and continuous_timeout is expressed in the same unit; a                 *)
(* text is a sequence over the two characters " " and "a"; the use_llm     *)
(* flag carried by statusSignal is left out.                               *)
(*                                                                         *)
(* DurationSpec and SaveSpec apply the minimum-duration test and           *)
(* _save_failed_audio to inputs drawn from bounded sets.  ChordSpec is the *)
(* main KeyChord of a KeyListener (src/src/key_listener.py) receiving key  *)
(* events while a clock in milliseconds advances; ParseSpec applies        *)
(* parse_key_combination to strings given as their '+'-separated pieces.   *)
(* ListenerSpec is a KeyListener choosing, starting and stopping its input *)
(* backends under any configuration; AppSpec is WhisperWriterApp           *)
(* (src/src/main.py): its KeyListener, its ResultThread reduced to         *)
(* running / result emitted / returned, and its handlers, on_activation    *)
(* being two steps around the test of start_result_thread.  ReadSpec       *)
(* applies the native-event handlers of the two backends to events drawn   *)
(* from bounded sets.                                                      *)
(***************************************************************************)
EXTENDS Integers, Sequences, FiniteSets, TLC

(* ------------------------------ bounds ------------------------------- *)

\* Frames the audio callback delivers while the loop is still recording.
MaxFrames == 8

\* The longest recording, in frames, handed to the tail of _record_audio
MaxDurFrames == 67

\* The longest audio, in frames, handed to _save_failed_audio
MaxSaveLen == 12

(* --------------------------- configuration --------------------------- *)

RecordingModes ==
    {"continuous", "voice_activity_detection", "press_to_toggle", "hold_to_record"}

\* recording_options.sample_rate (the default)
SampleRate == 16000

FrameDurationMs == 30

\* frame_size = int(sample_rate * (frame_duration_ms / 1000.0))
FrameSize == (SampleRate * FrameDurationMs) \div 1000

\* recording_options.silence_duration, in ms (configured value of the model)
SilenceDurationMs == 30

\* silence_frames = int(silence_duration_ms / frame_duration_ms)
SilenceFrames == SilenceDurationMs \div FrameDurationMs

\* initial_frames_to_skip = int(0.15 * sample_rate / frame_size)
InitialFramesToSkip == (15 * SampleRate) \div (100 * FrameSize)

\* recording_options.min_duration, in ms (the default)
MinDurationMs == 100

\* recording_options.continuous_timeout, in frame periods, when it is set
\* (0 is "off")
ContinuousTimeout == 6

\* The configurations of the model: the timeout is read in continuous
\* mode only.
Timeouts(mode) == IF mode = "continuous" THEN {0, ContinuousTimeout} ELSE {0}

\* attempts = 3
Attempts == 3

\* The value None of audio_data.
NoneAudio == -1

(* ------------------------------- texts ------------------------------- *)

Chars == {" ", "a"}

\* The texts transcribe() may return.
Texts == {<<>>, <<" ">>, <<" ", "a">>}

RECURSIVE LStrip(_)
LStrip(t) == IF t # <<>> /\ Head(t) = " " THEN LStrip(Tail(t)) ELSE t

RECURSIVE RStrip(_)
RStrip(t) ==
    IF t # <<>> /\ t[Len(t)] = " " THEN RStrip(SubSeq(t, 1, Len(t) - 1)) ELSE t

\* str.strip()
Strip(t) == RStrip(LStrip(t))

\* Python truthiness of a string
Truthy(t) == t # <<>>

\* `result and result.strip()`
IsSuccess(t) == Truthy(t) /\ Truthy(Strip(t))

\* IsBlank without the strip(): whitespace passes for a transcript
IsBlankNoStrip(t) == ~Truthy(t)

\* `not result or not result.strip()`
IsBlank(t) == ~Truthy(t) \/ ~Truthy(Strip(t))

(* ------------------------------- state ------------------------------- *)

VARIABLES
    \* configuration read by the session
    recording_mode, pause_media_cfg, continuous_timeout, min_duration,
    \* ResultThread fields
    is_recording, is_running, is_transcribing, sample_rate,
    \* MediaController fields and the player it controls
    was_playing, initial_state_playing, media_paused,
    \* QThread: start() was called; the worker's position in run()
    started, pc,
    \* locals of run()
    audio_data, result, attempt, exc,
    \* locals of _record_audio()
    initial_frames_to_skip, speech_detected, silent_frame_count,
    last_speech_time, recording, frame, stream_open,
    \* shared with the audio callback thread
    audio_buffer, data_ready, now,
    \* the caller of stop(): its position in stop()
    stop_pc,
    \* observations: signals emitted, calls made
    statuses, results, transcribe_calls, save_calls, file_writes,
    save_returns, resume_calls, stop_recording_called, silent_run,
    \* KeyChord fields (is_recording of the chord is chord_is_recording)
    keys, pressed_keys, last_trigger_time, chord_is_recording,
    \* time.time() in ms; the keys physically held; the last input event
    \* and what KeyListener.on_input_event did with it; the time of the last
    \* on_activate dispatch
    clock, held, ev, last_activate_time, dispatched,
    \* parse_key_combination: its argument, its result, whether it returned
    combination_string, parsed_keys, parse_returned,
    \* the backends whose is_available() is True; the configured
    \* recording_options.input_backend; the KeyListener of the application
    \* and the last call made on it
    available, input_backend, key_listener, kl_call,
    \* WhisperWriterApp: its ResultThread, a resultSignal emission waiting
    \* for the main thread, the number of ResultThreads started, the last
    \* handler that ran, whether an LLMProcessor was created
    result_thread, result_queued, sessions, app_event, llm_processor,
    use_llm, is_instruction_mode, activation, session_flags, result_flags,
    lost_threads,
    \* the last call of a backend's event handler
    read_call

cfgVars ==
    <<recording_mode, pause_media_cfg, continuous_timeout, min_duration>>
fieldVars == <<is_recording, is_running, is_transcribing, sample_rate>>
mediaVars == <<was_playing, initial_state_playing, media_paused>>
runVars == <<audio_data, result, attempt, exc>>
recVars == <<initial_frames_to_skip, speech_detected, silent_frame_count,
             last_speech_time, recording, frame, stream_open>>
cbVars == <<audio_buffer, data_ready, now>>
obsVars == <<statuses, results, transcribe_calls, save_calls, file_writes,
             save_returns, resume_calls, stop_recording_called, silent_run>>

chordVars == <<keys, pressed_keys, last_trigger_time, chord_is_recording>>
parseVars == <<combination_string, parsed_keys, parse_returned>>
listenerVars == <<available, input_backend, key_listener, kl_call>>
appVars ==
    <<result_thread, result_queued, sessions, app_event, llm_processor,
      use_llm, is_instruction_mode, activation, session_flags, result_flags,
      lost_threads>>
readVars == <<read_call>>
ctlVars == <<listenerVars, appVars, readVars>>
keyVars ==
    <<chordVars, clock, held, ev, last_activate_time, dispatched, parseVars, ctlVars>>

threadVars == <<cfgVars, fieldVars, mediaVars, started, pc, runVars, recVars,
                cbVars, stop_pc, obsVars>>

vars == <<threadVars, keyVars>>

\* self.sample_rate = None
NoneRate == -1

\* time.time() when the listener is constructed, in ms: far more than the
\* debounce interval after the epoch
ClockStart == 1000

\* No on_activate was dispatched yet
NoTime == -1

\* No input event was delivered yet
\* No callback was triggered: the last two callbacks that
\* _trigger_callbacks dispatched for the main chord, the older one first
NoCallbacks == <<"none", "none">>

NoEvent ==
    [key |-> "none", type |-> "none", was_active |-> FALSE, ret |-> FALSE,
     callback |-> "none"]

\* KeyChord.__init__(keys)
KeyChordInit(k) ==
    /\ keys = k
    /\ pressed_keys = {}
    /\ last_trigger_time = 0
    /\ chord_is_recording = FALSE

\* backend_classes = [EvdevBackend, PynputBackend]
BackendClasses == <<"evdev", "pynput">>

BackendNames == {BackendClasses[i] : i \in DOMAIN BackendClasses}

\* self.active_backend = None
NoBackend == "None"

\* EvdevBackend.__init__ / PynputBackend.__init__: no listener runs.
\* handle is the listener (thread) the backend object refers to, orphans
\* the listeners of earlier start() calls that still run
NewBackend == [handle |-> FALSE, orphans |-> 0]

\* No KeyListener was constructed
NoListener ==
    [built |-> FALSE, backends |-> <<>>, active_backend |-> NoBackend,
     state |-> [b \in BackendNames |-> NewBackend],
     double_start |-> FALSE, raised |-> "none"]

\* No call was made on the KeyListener
NoCall == [op |-> "none", raised |-> "none", preferred |-> "none"]

\* No handler of the application ran
NoHandler == [handler |-> "none", path |-> "none", started |-> FALSE]

\* The arguments of an activation or deactivation callback
Flags(llm, instruction) ==
    [use_llm |-> llm, is_instruction_mode |-> instruction]

\* on_activation is not running on the listener thread
NoActivation == [pc |-> "idle", flags |-> Flags(FALSE, FALSE)]

\* The application object as initialize_components leaves it: no session
\* was started and no callback has set the LLM flags
NoSessions ==
    /\ use_llm = FALSE
    /\ is_instruction_mode = FALSE
    /\ activation = NoActivation
    /\ session_flags = Flags(FALSE, FALSE)
    /\ result_flags = Flags(FALSE, FALSE)
    /\ lost_threads = 0

\* No event handler of a backend was called
NoRead ==
    [handler |-> "none", batch |-> <<>>,
     key |-> [cls |-> "None", name |-> "None", vk |-> -1],
     delivered |-> <<>>, reported |-> FALSE]

\* No application: no KeyListener, no ResultThread
ControllerStill ==
    /\ available = {}
    /\ input_backend = "auto"
    /\ key_listener = NoListener
    /\ kl_call = NoCall
    /\ result_thread = "None"
    /\ result_queued = FALSE
    /\ sessions = 0
    /\ app_event = NoHandler
    /\ NoSessions
    /\ llm_processor = FALSE
    /\ read_call = NoRead

\* A listener that receives no events, with a chord of no keys, and no
\* call of parse_key_combination
ListenerStill ==
    /\ ControllerStill
    /\ KeyChordInit({})
    /\ clock = ClockStart
    /\ held = {}
    /\ ev = NoEvent
    /\ last_activate_time = NoTime
    /\ dispatched = NoCallbacks
    /\ combination_string = <<>>
    /\ parsed_keys = {}
    /\ parse_returned = FALSE

\* ResultThread.__init__ apart from sample_rate, and the locals of run and
\* _record_audio before they are bound (audio_data, recording and the
\* worker's position are set by the specifications)
InitThread ==
    /\ is_recording = FALSE
    /\ is_running = TRUE
    /\ is_transcribing = FALSE
    /\ was_playing = FALSE
    /\ initial_state_playing = FALSE
    /\ media_paused = FALSE
    /\ started = FALSE
    /\ result = <<>>
    /\ attempt = 0
    /\ exc = "none"
    /\ initial_frames_to_skip = 0
    /\ speech_detected = FALSE
    /\ silent_frame_count = 0
    /\ last_speech_time = 0
    /\ frame = <<>>
    /\ stream_open = FALSE
    /\ audio_buffer = <<>>
    /\ data_ready = FALSE
    /\ now = 0
    /\ stop_pc = "idle"
    /\ statuses = <<>>
    /\ results = <<>>
    /\ transcribe_calls = <<>>
    /\ save_calls = <<>>
    /\ file_writes = 0
    /\ save_returns = <<>>
    /\ resume_calls = 0
    /\ stop_recording_called = FALSE
    /\ silent_run = 0

\* ResultThread.__init__, and the configuration of the session
Init ==
    /\ recording_mode \in RecordingModes
    /\ pause_media_cfg \in BOOLEAN
    /\ continuous_timeout \in Timeouts(recording_mode)
    /\ min_duration = MinDurationMs
    /\ sample_rate = NoneRate
    /\ pc = "init"
    /\ audio_data = NoneAudio
    /\ recording = 0
    /\ InitThread
    /\ ListenerStill

\* A ResultThread that is constructed and never started
ThreadUnstarted ==
    /\ pause_media_cfg = FALSE
    /\ continuous_timeout = 0
    /\ min_duration = MinDurationMs
    /\ sample_rate = NoneRate
    /\ pc = "init"
    /\ audio_data = NoneAudio
    /\ recording = 0
    /\ InitThread

ThreadStill == recording_mode = "press_to_toggle" /\ ThreadUnstarted

(* ------------------------------ signals ------------------------------ *)

\* statusSignal.emit(status, ...) called by `by` ("run" or "stop")
EmitStatus(by, status) ==
    statuses' = Append(statuses, [by |-> by, status |-> status])

\* resultSignal.emit(text); pos is the number of statuses emitted before it
EmitResult(text) ==
    results' = Append(results, [text |-> text, pos |-> Len(statuses)])

\* QThread.isRunning(): between start() and the return of run()
IsRunningThread == started /\ pc # "done"

(* --------------------- the controller (main.py) ---------------------- *)

\* WhisperWriterApp.start_result_thread: result_thread.start()
Start ==
    /\ ~started
    /\ started' = TRUE
    /\ pc' = "check_running"
    /\ UNCHANGED <<cfgVars, keyVars, fieldVars, mediaVars, runVars, recVars, cbVars,
                   stop_pc, obsVars>>

\* ResultThread.stop_recording, called by on_activation / on_deactivation
\* when result_thread.isRunning()
StopRecording ==
    /\ recording_mode \in {"press_to_toggle", "hold_to_record"}
    /\ IsRunningThread
    /\ is_recording' = FALSE
    /\ stop_recording_called' = TRUE
    /\ UNCHANGED <<cfgVars, keyVars, is_running, is_transcribing, sample_rate,
                   mediaVars, started, pc, runVars, recVars, cbVars, stop_pc,
                   statuses, results, transcribe_calls, save_calls,
                   file_writes, save_returns, resume_calls, silent_run>>

\* ResultThread.stop, first statement: is_running = False under the mutex.
\* stop_result_thread calls it when result_thread.isRunning().
StopSetFlag ==
    /\ IsRunningThread
    /\ stop_pc = "idle"
    /\ is_running' = FALSE
    /\ stop_pc' = "emit"
    /\ UNCHANGED <<cfgVars, keyVars, is_recording, is_transcribing, sample_rate,
                   mediaVars, started, pc, runVars, recVars, cbVars, obsVars>>

\* ResultThread.stop: statusSignal.emit('idle', False)
StopEmitIdle ==
    /\ stop_pc = "emit"
    /\ EmitStatus("stop", "idle")
    /\ stop_pc' = "wait"
    /\ UNCHANGED <<cfgVars, keyVars, fieldVars, mediaVars, started, pc, runVars,
                   recVars, cbVars, results, transcribe_calls, save_calls,
                   file_writes, save_returns, resume_calls, stop_recording_called,
                   silent_run>>

\* A stop() that does not join the worker
WaitReturnsAtOnce == TRUE

\* QThread.wait(): returns once run() has returned
WaitReturns == pc = "done"

\* ResultThread.stop: self.wait(), then the return to the caller
StopWait ==
    /\ stop_pc = "wait"
    /\ WaitReturns
    /\ stop_pc' = "returned"
    /\ UNCHANGED <<cfgVars, keyVars, fieldVars, mediaVars, started, pc, runVars,
                   recVars, cbVars, obsVars>>

(* ---------------------- the audio callback thread -------------------- *)

\* The frames the model lets the stream deliver: MaxFrames while the loop
\* records, and afterwards only the one that wakes a loop whose flags
\* were cleared.
MayDeliver ==
    \/ now < MaxFrames
    \/ ~data_ready /\ ~(is_running /\ is_recording)

\* audio_callback: audio_buffer.extend(indata[:, 0]); data_ready.set().
\* audio_buffer is a deque(maxlen=frame_size) and a block is frame_size
\* samples: the buffer holds the last block delivered.
AudioCallback ==
    /\ stream_open
    /\ MayDeliver
    /\ \E speech \in BOOLEAN : audio_buffer' = <<speech>>
    /\ data_ready' = TRUE
    /\ now' = now + 1
    /\ UNCHANGED <<cfgVars, keyVars, fieldVars, mediaVars, started, pc, runVars,
                   recVars, stop_pc, obsVars>>

(* ------------------------- ResultThread.run -------------------------- *)

\* `if not self.is_running: return` at the top of run
RunCheckRunning ==
    /\ pc = "check_running"
    /\ pc' = IF is_running THEN "pause_media" ELSE "finally"
    /\ UNCHANGED <<cfgVars, keyVars, fieldVars, mediaVars, started, runVars, recVars,
                   cbVars, stop_pc, obsVars>>

\* media_controller.pause_media() and `was_playing = True`, when
\* misc.pause_media_during_recording is set. The key press of pause_media
\* (only when audio is playing) may raise.
RunPauseMedia ==
    /\ pc = "pause_media"
    /\ \/ /\ ~pause_media_cfg
          /\ pc' = "set_recording"
          /\ UNCHANGED <<mediaVars, exc>>
       \/ /\ pause_media_cfg
          /\ initial_state_playing' = FALSE
          /\ was_playing' = TRUE
          /\ pc' = "set_recording"
          /\ UNCHANGED <<media_paused, exc>>
       \/ /\ pause_media_cfg
          /\ initial_state_playing' = TRUE
          /\ was_playing' = TRUE
          /\ media_paused' = TRUE
          /\ pc' = "set_recording"
          /\ UNCHANGED exc
       \/ /\ pause_media_cfg
          /\ initial_state_playing' = TRUE
          /\ exc' = "pause_media"
          /\ pc' = "except"
          /\ UNCHANGED <<was_playing, media_paused>>
    /\ UNCHANGED <<cfgVars, keyVars, fieldVars, started, audio_data, result, attempt,
                   recVars, cbVars, stop_pc, obsVars>>

\* `self.is_recording = True` under the mutex
RunSetRecording ==
    /\ pc = "set_recording"
    /\ is_recording' = TRUE
    /\ pc' = "emit_recording"
    /\ UNCHANGED <<cfgVars, keyVars, is_running, is_transcribing, sample_rate,
                   mediaVars, started, runVars, recVars, cbVars, stop_pc,
                   obsVars>>

\* statusSignal.emit('recording', ...)
RunEmitRecording ==
    /\ pc = "emit_recording"
    /\ EmitStatus("run", "recording")
    /\ pc' = "ra_init"
    /\ UNCHANGED <<cfgVars, keyVars, fieldVars, mediaVars, started, runVars, recVars,
                   cbVars, stop_pc, results, transcribe_calls, save_calls,
                   file_writes, save_returns, resume_calls, stop_recording_called,
                   silent_run>>

(* -------------------- ResultThread._record_audio --------------------- *)

VadModes == {"voice_activity_detection", "continuous"}

\* The head of _record_audio up to the opening of sd.InputStream, which
\* may raise (no usable input device).
RecordInit ==
    /\ pc = "ra_init"
    /\ sample_rate' = SampleRate
    /\ initial_frames_to_skip' = InitialFramesToSkip
    /\ speech_detected' = FALSE
    /\ silent_frame_count' = 0
    /\ recording' = 0
    /\ last_speech_time' = now
    /\ frame' = <<>>
    /\ \/ /\ stream_open' = TRUE
          /\ pc' = "ra_loop"
          /\ UNCHANGED exc
       \/ /\ stream_open' = FALSE
          /\ exc' = "record_audio"
          /\ pc' = "except"
    /\ UNCHANGED <<cfgVars, keyVars, is_recording, is_running, is_transcribing,
                   mediaVars, started, audio_data, result, attempt, cbVars,
                   stop_pc, obsVars>>

\* _record_audio returns: the stream is closed and the locals, the buffer
\* and the event of the callback's closure are gone.
ReleaseLocals ==
    /\ stream_open' = FALSE
    /\ initial_frames_to_skip' = 0
    /\ speech_detected' = FALSE
    /\ silent_frame_count' = 0
    /\ last_speech_time' = 0
    /\ recording' = 0
    /\ frame' = <<>>
    /\ audio_buffer' = <<>>
    /\ data_ready' = FALSE
    /\ now' = 0
    /\ silent_run' = 0

\* `while self.is_running and self.is_recording:`
LoopCondition == is_running /\ is_recording

RecordLoopTest ==
    /\ pc = "ra_loop"
    /\ IF LoopCondition
       THEN pc' = "ra_wait"
       ELSE pc' = "ra_finish"
    /\ UNCHANGED <<cfgVars, keyVars, fieldVars, mediaVars, started, runVars, recVars,
                   cbVars, stop_pc, obsVars>>

\* data_ready.wait(); data_ready.clear()
RecordWait ==
    /\ pc = "ra_wait"
    /\ data_ready
    /\ data_ready' = FALSE
    /\ pc' = "ra_len"
    /\ UNCHANGED <<cfgVars, keyVars, fieldVars, mediaVars, started, runVars, recVars,
                   audio_buffer, now, stop_pc, obsVars>>

\* `if len(audio_buffer) < frame_size: continue`, else
\* frame = np.array(list(audio_buffer))
RecordCopyFrame ==
    /\ pc = "ra_len"
    /\ IF Len(audio_buffer) < 1
       THEN pc' = "ra_loop" /\ UNCHANGED frame
       ELSE pc' = "ra_clear" /\ frame' = audio_buffer
    /\ UNCHANGED <<cfgVars, keyVars, fieldVars, mediaVars, started, runVars,
                   initial_frames_to_skip, speech_detected,
                   silent_frame_count, last_speech_time, recording,
                   stream_open, cbVars, stop_pc, obsVars>>

\* audio_buffer.clear(); recording.extend(frame); the initial frames are
\* not examined further
RecordTakeFrame ==
    /\ pc = "ra_clear"
    /\ audio_buffer' = <<>>
    /\ recording' = recording + 1
    /\ IF initial_frames_to_skip > 0
       THEN /\ initial_frames_to_skip' = initial_frames_to_skip - 1
            /\ pc' = "ra_loop"
       ELSE /\ UNCHANGED initial_frames_to_skip
            /\ pc' = "ra_vad"
    /\ UNCHANGED <<cfgVars, keyVars, fieldVars, mediaVars, started, runVars,
                   speech_detected, silent_frame_count, last_speech_time,
                   frame, stream_open, data_ready, now, stop_pc, obsVars>>

\* The count of silent frames after a frame that is not speech
CountSilentFrame(mode, count) ==
    IF mode = "continuous" THEN count + 1 ELSE count

\* "Check for speech in the current frame"
RecordVad ==
    /\ pc = "ra_vad"
    /\ IF recording_mode \in VadModes
       THEN IF frame[1]
            THEN /\ last_speech_time' = now
                 /\ silent_frame_count' =
                        IF recording_mode = "continuous"
                        THEN 0 ELSE silent_frame_count
                 /\ speech_detected' = TRUE
                 /\ silent_run' = 0
            ELSE /\ silent_frame_count' =
                        CountSilentFrame(recording_mode, silent_frame_count)
                 /\ silent_run' = silent_run + 1
                 /\ UNCHANGED <<last_speech_time, speech_detected>>
       ELSE UNCHANGED <<last_speech_time, silent_frame_count,
                        speech_detected, silent_run>>
    /\ pc' = "ra_timeout"
    /\ UNCHANGED <<cfgVars, keyVars, fieldVars, mediaVars, started, runVars,
                   initial_frames_to_skip, recording, frame, stream_open,
                   cbVars, stop_pc, statuses, results, transcribe_calls,
                   save_calls, file_writes, save_returns, resume_calls,
                   stop_recording_called>>

\* A timeout test that fires one frame period late
TimedOutLate ==
    /\ recording_mode = "continuous"
    /\ continuous_timeout > 0
    /\ now - last_speech_time > continuous_timeout + 1

\* "Check for continuous mode silence timeout"
TimedOut ==
    /\ recording_mode = "continuous"
    /\ continuous_timeout > 0
    /\ now - last_speech_time > continuous_timeout

RecordTimeout ==
    /\ pc = "ra_timeout"
    /\ IF TimedOut
       THEN /\ is_running' = FALSE
            /\ is_recording' = FALSE
            /\ EmitStatus("run", "idle")
            /\ audio_data' = NoneAudio
            /\ ReleaseLocals
            /\ pc' = "check_running2"
       ELSE /\ pc' = "ra_silence"
            /\ UNCHANGED <<is_running, is_recording, statuses, audio_data,
                           recVars, cbVars, silent_run>>
    /\ UNCHANGED <<cfgVars, keyVars, is_transcribing, sample_rate, mediaVars, started,
                   result, attempt, exc, stop_pc, results,
                   transcribe_calls, save_calls, file_writes, save_returns, resume_calls,
                   stop_recording_called>>

\* "Check for normal silence detection"
SilenceBreak ==
    /\ recording_mode \in VadModes
    /\ speech_detected
    /\ silent_frame_count > SilenceFrames

RecordSilence ==
    /\ pc = "ra_silence"
    /\ IF SilenceBreak
       THEN pc' = "ra_finish"
       ELSE pc' = "ra_loop"
    /\ UNCHANGED <<cfgVars, keyVars, fieldVars, mediaVars, started, runVars, recVars,
                   cbVars, stop_pc, obsVars>>

(* ----------------- Python float (IEEE 754 binary64) ------------------ *)

\* The precision of a Python float: 53 significant binary digits
MantissaBits == 53

\* The operations are functions: their arguments are values.

Bit == {0, 1}

\* A natural number as its binary digits, the most significant first
NatToBits[n \in Nat] ==
    IF n = 0 THEN <<>> ELSE Append(NatToBits[n \div 2], n % 2)

Zeros(k) == [i \in 1..k |-> 0]

\* The digits of the number plus one: the last 0 becomes 1 and the 1s
\* after it become 0
IncBits[b \in Seq(Bit)] ==
    IF \A i \in 1..Len(b) : b[i] = 1 THEN <<1>> \o Zeros(Len(b))
    ELSE LET k == CHOOSE i \in 1..Len(b) :
                      b[i] = 0 /\ \A j \in (i + 1)..Len(b) : b[j] = 1
         IN  [i \in 1..Len(b) |->
                 IF i < k THEN b[i] ELSE IF i = k THEN 1 ELSE 0]

\* The digits of the number times c: acc holds the low digits of the
\* product computed so far, carry what they pass on
MulBits[b \in Seq(Bit), c \in Nat, carry \in Nat, acc \in Seq(Bit)] ==
    IF Len(acc) = Len(b) THEN NatToBits[carry] \o acc
    ELSE LET x == b[Len(b) - Len(acc)] * c + carry
         IN  MulBits[b, c, x \div 2, <<x % 2>> \o acc]

\* a < b, for digit strings without leading zeros
BitsLess[a \in Seq(Bit), b \in Seq(Bit)] ==
    \/ Len(a) < Len(b)
    \/ /\ Len(a) = Len(b)
       /\ \E i \in 1..Len(a) :
            a[i] < b[i] /\ \A j \in 1..(i - 1) : a[j] = b[j]

\* A float is m * 2^e with m a string of at most MantissaBits digits
Float == [m : Seq(Bit), e : Int]

\* Round to nearest, ties to even: the digits b (times 2^e, plus a rest
\* below the last digit when `more`) as a float
RoundNearestEven[b \in Seq(Bit), e \in Int, more \in BOOLEAN] ==
    IF Len(b) <= MantissaBits THEN [m |-> b, e |-> e]
    ELSE LET keep == SubSeq(b, 1, MantissaBits)
             rest == SubSeq(b, MantissaBits + 1, Len(b))
             sticky == more \/ \E i \in 2..Len(rest) : rest[i] = 1
             up == rest[1] = 1 /\ (sticky \/ keep[MantissaBits] = 1)
         IN  IF up /\ \A i \in 1..MantissaBits : keep[i] = 1
             THEN [m |-> <<1>> \o Zeros(MantissaBits - 1),
                   e |-> e + Len(rest) + 1]
             ELSE [m |-> IF up THEN IncBits[keep] ELSE keep,
                   e |-> e + Len(rest)]

\* Long division of r * 2^(-f) by d after the digits `bits`, up to one
\* digit past the precision
DivBits[bits \in Seq(Bit), r \in Nat, d \in Nat, f \in Nat] ==
    IF Len(bits) > MantissaBits
    THEN [bits |-> bits, more |-> r # 0, e |-> 0 - f]
    ELSE LET bit == IF 2 * r >= d THEN 1 ELSE 0
         IN  DivBits[IF bits = <<>> /\ bit = 0 THEN bits
                     ELSE Append(bits, bit),
                     2 * r - bit * d, d, f + 1]

\* n / d on Python ints (true division): the float nearest to the quotient
FloatDiv[n \in Nat, d \in Nat] ==
    IF n = 0 THEN [m |-> <<>>, e |-> 0]
    ELSE LET q == DivBits[NatToBits[n \div d], n % d, d, 0]
         IN  RoundNearestEven[q.bits, q.e, q.more]

\* x * c for a float x and a small int c
FloatMul[x \in Float, c \in Nat] ==
    RoundNearestEven[MulBits[x.m, c, 0, <<>>], x.e, FALSE]

\* x < k for a float x and an int k >= 0
FloatLess[x \in Float, k \in Nat] ==
    IF k = 0 THEN FALSE
    ELSE IF x.m = <<>> THEN TRUE
    ELSE IF x.e >= 0
         THEN BitsLess[x.m \o Zeros(x.e), NatToBits[k]]
         ELSE BitsLess[x.m, NatToBits[k] \o Zeros(0 - x.e)]

\* The same comparison in exact arithmetic
TooShortExact(samples, rate, min_cfg) ==
    samples * 1000 < (IF min_cfg = 0 THEN MinDurationMs ELSE min_cfg) * rate

\* duration = len(audio_data) / self.sample_rate;
\* min_duration_ms = recording_options.get('min_duration') or 100;
\* `(duration * 1000) < min_duration_ms`
TooShort(samples, rate, min_cfg) ==
    FloatLess[FloatMul[FloatDiv[samples, rate], 1000],
              IF min_cfg = 0 THEN MinDurationMs ELSE min_cfg]

\* The tail of _record_audio: the recording, or None when it is too short
RecordFinish ==
    /\ pc = "ra_finish"
    /\ audio_data' =
         IF TooShort(recording * FrameSize, sample_rate, min_duration)
         THEN NoneAudio ELSE recording
    /\ ReleaseLocals
    /\ pc' = "check_running2"
    /\ UNCHANGED <<cfgVars, keyVars, fieldVars, mediaVars, started, result, attempt,
                   exc, stop_pc, statuses, results, transcribe_calls,
                   save_calls, file_writes, save_returns, resume_calls,
                   stop_recording_called>>

(* --------------------- ResultThread.run, continued ------------------- *)

\* `if not self.is_running: return` after _record_audio
RunCheckRunning2 ==
    /\ pc = "check_running2"
    /\ pc' = IF is_running THEN "check_audio" ELSE "finally"
    /\ UNCHANGED <<cfgVars, keyVars, fieldVars, mediaVars, started, runVars, recVars,
                   cbVars, stop_pc, obsVars>>

\* NoAudio without the None test
NoAudioLenOnly(audio) == audio = 0

\* `audio_data is None or len(audio_data) == 0`
NoAudio(audio) == audio = NoneAudio \/ audio = 0

\* `if audio_data is None or len(audio_data) == 0: emit idle; return`
RunCheckAudio ==
    /\ pc = "check_audio"
    /\ IF NoAudio(audio_data)
       THEN EmitStatus("run", "idle") /\ pc' = "finally"
       ELSE UNCHANGED statuses /\ pc' = "emit_transcribing"
    /\ UNCHANGED <<cfgVars, keyVars, fieldVars, mediaVars, started, runVars, recVars,
                   cbVars, stop_pc, results, transcribe_calls, save_calls,
                   file_writes, save_returns, resume_calls, stop_recording_called,
                   silent_run>>

\* is_transcribing = True; statusSignal.emit('transcribing', ...);
\* result = ''; the retry loop begins with attempt 1
RunEmitTranscribing ==
    /\ pc = "emit_transcribing"
    /\ is_transcribing' = TRUE
    /\ EmitStatus("run", "transcribing")
    /\ result' = <<>>
    /\ attempt' = 1
    /\ pc' = "attempt"
    /\ UNCHANGED <<cfgVars, keyVars, is_recording, is_running, sample_rate, mediaVars,
                   started, audio_data, exc, recVars, cbVars, stop_pc,
                   results, transcribe_calls, save_calls, file_writes, save_returns,
                   resume_calls, stop_recording_called, silent_run>>

\* What one call of transcribe() does: it raises, or returns a text.
Outcomes ==
    {[raised |-> TRUE, text |-> <<>>]}
        \cup {[raised |-> FALSE, text |-> t] : t \in Texts}

\* MoreAttempts with an off-by-one bound: a fourth attempt is made
MoreAttemptsOffByOne(n) == n <= Attempts

\* The loop goes on to another attempt
MoreAttempts(n) == n < Attempts

\* One iteration of `for attempt in range(1, attempts + 1)`: the call of
\* transcribe inside try/except, the break on a non-blank result, the sleep
RunAttempt ==
    /\ pc = "attempt"
    /\ \E o \in Outcomes :
         /\ transcribe_calls' =
                Append(transcribe_calls, [audio |-> audio_data, out |-> o])
         /\ result' = IF o.raised THEN result ELSE o.text
         /\ IF ~o.raised /\ IsSuccess(o.text)
            THEN pc' = "check_result" /\ UNCHANGED attempt
            ELSE IF MoreAttempts(attempt)
                 THEN pc' = "attempt" /\ attempt' = attempt + 1
                 ELSE pc' = "check_result" /\ UNCHANGED attempt
    /\ UNCHANGED <<cfgVars, keyVars, fieldVars, mediaVars, started, audio_data, exc,
                   recVars, cbVars, stop_pc, statuses, results, save_calls,
                   file_writes, save_returns, resume_calls, stop_recording_called,
                   silent_run>>

\* `if not result or not result.strip():`
RunCheckResult ==
    /\ pc = "check_result"
    /\ pc' = IF IsBlank(result) THEN "save_failed" ELSE "check_running3"
    /\ UNCHANGED <<cfgVars, keyVars, fieldVars, mediaVars, started, runVars, recVars,
                   cbVars, stop_pc, obsVars>>

\* A validation that does not look at the sample rate
SaveRefusedNoRate(audio, rate) == audio = NoneAudio \/ audio = 0

\* The validation at the head of _save_failed_audio
SaveRefused(audio, rate) ==
    audio = NoneAudio \/ audio = 0 \/ rate = NoneRate \/ rate <= 0

\* What the file system does to a save that passed the validation
SaveOutcomes(audio, rate) ==
    IF SaveRefused(audio, rate) THEN {"none"}
    ELSE {"ok", "makedirs_raises", "write_raises"}

\* A save whose try block lets the exception through
SaveFailedAudioUncaught(audio, rate, io) ==
    IF SaveRefused(audio, rate)
    THEN [path |-> "", makedirs |-> 0, writes |-> 0, raised |-> FALSE]
    ELSE [path |-> IF io = "ok" THEN "failed.flac" ELSE "",
          makedirs |-> 1,
          writes |-> IF io = "makedirs_raises" THEN 0 ELSE 1,
          raised |-> io # "ok"]

\* _save_failed_audio(audio_data): the path it returns, the calls of
\* os.makedirs and sf.write it makes, and whether it raises
SaveFailedAudio(audio, rate, io) ==
    IF SaveRefused(audio, rate)
    THEN [path |-> "", makedirs |-> 0, writes |-> 0, raised |-> FALSE]
    ELSE [path |-> IF io = "ok" THEN "failed.flac" ELSE "",
          makedirs |-> 1,
          writes |-> IF io = "makedirs_raises" THEN 0 ELSE 1,
          raised |-> FALSE]

\* file_path = self._save_failed_audio(audio_data); an exception that left
\* the call would reach the handler of run
RunSaveFailed ==
    /\ pc = "save_failed"
    /\ \E io \in SaveOutcomes(audio_data, sample_rate) :
         LET r == SaveFailedAudio(audio_data, sample_rate, io)
         IN  /\ save_calls' = Append(save_calls, audio_data)
             /\ file_writes' = file_writes + r.writes
             /\ save_returns' =
                  Append(save_returns,
                         [io |-> io, path |-> r.path,
                          makedirs |-> r.makedirs, writes |-> r.writes])
             /\ IF r.raised
                THEN exc' = "save_failed_audio" /\ pc' = "except"
                ELSE UNCHANGED exc /\ pc' = "emit_failed"
    /\ UNCHANGED <<cfgVars, keyVars, fieldVars, mediaVars, started, audio_data,
                   result, attempt, recVars, cbVars, stop_pc, statuses,
                   results, transcribe_calls, resume_calls,
                   stop_recording_called, silent_run>>

\* statusSignal.emit('transcription_failed', ...); return
RunEmitFailed ==
    /\ pc = "emit_failed"
    /\ EmitStatus("run", "transcription_failed")
    /\ pc' = "finally"
    /\ UNCHANGED <<cfgVars, keyVars, fieldVars, mediaVars, started, runVars, recVars,
                   cbVars, stop_pc, results, transcribe_calls, save_calls,
                   file_writes, save_returns, resume_calls, stop_recording_called,
                   silent_run>>

\* `if not self.is_running: return` before the result is emitted
RunCheckRunning3 ==
    /\ pc = "check_running3"
    /\ pc' = IF is_running THEN "emit_idle" ELSE "finally"
    /\ UNCHANGED <<cfgVars, keyVars, fieldVars, mediaVars, started, runVars, recVars,
                   cbVars, stop_pc, obsVars>>

\* statusSignal.emit('idle', ...)
RunEmitIdle ==
    /\ pc = "emit_idle"
    /\ EmitStatus("run", "idle")
    /\ pc' = "emit_result"
    /\ UNCHANGED <<cfgVars, keyVars, fieldVars, mediaVars, started, runVars, recVars,
                   cbVars, stop_pc, results, transcribe_calls, save_calls,
                   file_writes, save_returns, resume_calls, stop_recording_called,
                   silent_run>>

\* resultSignal.emit(result)
RunEmitResult ==
    /\ pc = "emit_result"
    /\ EmitResult(result)
    /\ pc' = "reset"
    /\ UNCHANGED <<cfgVars, keyVars, fieldVars, mediaVars, started, runVars, recVars,
                   cbVars, stop_pc, statuses, transcribe_calls, save_calls,
                   file_writes, save_returns, resume_calls, stop_recording_called,
                   silent_run>>

\* is_transcribing = False; last_audio_time = time.time()
RunReset ==
    /\ pc = "reset"
    /\ is_transcribing' = FALSE
    /\ pc' = "resume_media"
    /\ UNCHANGED <<cfgVars, keyVars, is_recording, is_running, sample_rate, mediaVars,
                   started, runVars, recVars, cbVars, stop_pc, obsVars>>

\* media_controller.resume_media(), when misc.pause_media_during_recording
\* is set. Its key press (only when media was paused) may raise.
RunResumeMedia ==
    /\ pc = "resume_media"
    /\ \/ /\ ~pause_media_cfg
          /\ pc' = "finally"
          /\ UNCHANGED <<mediaVars, exc, resume_calls>>
       \/ /\ pause_media_cfg
          /\ resume_calls' = resume_calls + 1
          /\ media_paused' = IF was_playing /\ initial_state_playing
                             THEN FALSE ELSE media_paused
          /\ was_playing' = FALSE
          /\ initial_state_playing' = FALSE
          /\ pc' = "finally"
          /\ UNCHANGED exc
       \/ /\ pause_media_cfg
          /\ was_playing /\ initial_state_playing
          /\ resume_calls' = resume_calls + 1
          /\ exc' = "resume_media"
          /\ pc' = "except"
          /\ UNCHANGED mediaVars
    /\ UNCHANGED <<cfgVars, keyVars, fieldVars, started, audio_data, result, attempt,
                   recVars, cbVars, stop_pc, statuses, results,
                   transcribe_calls, save_calls, file_writes, save_returns,
                   stop_recording_called, silent_run>>

\* `except Exception`: statusSignal.emit('error', ...)
RunExceptStatus ==
    /\ pc = "except"
    /\ EmitStatus("run", "error")
    /\ pc' = "except_result"
    /\ UNCHANGED <<cfgVars, keyVars, fieldVars, mediaVars, started, runVars, recVars,
                   cbVars, stop_pc, results, transcribe_calls, save_calls,
                   file_writes, save_returns, resume_calls, stop_recording_called,
                   silent_run>>

\* The handler without its resultSignal.emit('')
RunExceptNoResult ==
    /\ pc = "except_result"
    /\ pc' = "finally"
    /\ UNCHANGED <<cfgVars, keyVars, fieldVars, mediaVars, started, runVars, recVars,
                   cbVars, stop_pc, obsVars>>

\* `except Exception`: resultSignal.emit('')
RunExceptResult ==
    /\ pc = "except_result"
    /\ EmitResult(<<>>)
    /\ pc' = "finally"
    /\ UNCHANGED <<cfgVars, keyVars, fieldVars, mediaVars, started, runVars, recVars,
                   cbVars, stop_pc, statuses, transcribe_calls, save_calls,
                   file_writes, save_returns, resume_calls, stop_recording_called,
                   silent_run>>

\* `finally: self.is_transcribing = False`, and run returns
RunFinally ==
    /\ pc = "finally"
    /\ is_transcribing' = FALSE
    /\ pc' = "done"
    /\ UNCHANGED <<cfgVars, keyVars, is_recording, is_running, sample_rate, mediaVars,
                   started, runVars, recVars, cbVars, stop_pc, obsVars>>

(* --------------------------- specifications -------------------------- *)

\* The steps of the worker thread
Worker ==
    \/ RunCheckRunning \/ RunPauseMedia \/ RunSetRecording
    \/ RunEmitRecording \/ RecordInit \/ RecordLoopTest \/ RecordWait
    \/ RecordCopyFrame \/ RecordTakeFrame \/ RecordVad \/ RecordTimeout
    \/ RecordSilence \/ RecordFinish \/ RunCheckRunning2 \/ RunCheckAudio
    \/ RunEmitTranscribing \/ RunAttempt \/ RunCheckResult \/ RunSaveFailed
    \/ RunEmitFailed \/ RunCheckRunning3 \/ RunEmitIdle \/ RunEmitResult
    \/ RunReset \/ RunResumeMedia \/ RunExceptStatus \/ RunExceptResult
    \/ RunFinally

\* The steps of the caller of stop()
Stopper == StopSetFlag \/ StopEmitIdle \/ StopWait

Next == Start \/ StopRecording \/ Stopper \/ AudioCallback \/ Worker

Spec == Init /\ [][Next]_vars

\* The worker thread is scheduled, the stream keeps calling back, and the
\* caller of stop() runs on.
FairSpec ==
    Spec /\ WF_vars(Worker) /\ WF_vars(AudioCallback) /\ WF_vars(Stopper)

(* ------------- the tail of _record_audio, on any recording ----------- *)

\* The minimal durations configured against a recording of k frames: the
\* default, the duration of the recording, and one millisecond more
MinDurations(k) ==
    {MinDurationMs}
        \cup {m \in {k * FrameDurationMs, k * FrameDurationMs + 1} : m > 0}

\* The loop of _record_audio has ended with a recording of 0..MaxDurFrames
\* frames
DurationInit ==
    /\ recording_mode = "press_to_toggle"
    /\ pause_media_cfg = FALSE
    /\ continuous_timeout = 0
    /\ recording \in 0..MaxDurFrames
    /\ min_duration \in MinDurations(recording)
    /\ sample_rate = SampleRate
    /\ pc = "ra_finish"
    /\ audio_data = NoneAudio
    /\ InitThread
    /\ ListenerStill

DurationNext == RecordFinish \/ RunCheckRunning2 \/ RunCheckAudio

DurationSpec == DurationInit /\ [][DurationNext]_vars

(* ---------------- _save_failed_audio, on any audio and rate ---------- *)

\* Sample rates of a ResultThread: unset, negative, zero, the default
SaveRates == {NoneRate, 0 - SampleRate, 0, SampleRate}

\* run is about to call _save_failed_audio(audio_data)
SaveInit ==
    /\ recording_mode = "press_to_toggle"
    /\ pause_media_cfg = FALSE
    /\ continuous_timeout = 0
    /\ min_duration = MinDurationMs
    /\ recording = 0
    /\ sample_rate \in SaveRates
    /\ audio_data \in {NoneAudio} \cup 0..MaxSaveLen
    /\ pc = "save_failed"
    /\ InitThread
    /\ ListenerStill

SaveNext == RunSaveFailed \/ RunEmitFailed

SaveSpec == SaveInit /\ [][SaveNext]_vars

(* ------------------------- key_listener.py --------------------------- *)

\* self.debounce_delay = 0.3, in ms
DebounceDelayMs == 300

\* The time that passes between two looks at the clock, and how often it
\* passes
TickMs == 100
MaxTicks == 7

\* KeyCode members of the model
KeyCodes ==
    {"CTRL_LEFT", "CTRL_RIGHT", "SHIFT_LEFT", "SHIFT_RIGHT", "ZERO",
     "NUMPAD_0", "R", "A"}

\* The keys of the keyboard whose events are delivered
EventKeys == {"CTRL_LEFT", "CTRL_RIGHT", "R", "A"}

\* InputEvent members delivered for keys
EventTypes == {"KEY_PRESS", "KEY_RELEASE"}

\* An element of KeyChord.keys: a KeyCode (alt FALSE, one key) or a
\* frozenset of KeyCodes (alt TRUE)
Key(k) == [alt |-> FALSE, keys |-> {k}]
AnyOf(ks) == [alt |-> TRUE, keys |-> ks]

(* ----------------- KeyListener.parse_key_combination ----------------- *)

\* The '+'-separated pieces of the configured strings of the model
Tokens ==
    {"ctrl", "CTRL", " shift", "lctrl", "ctrl_left", "r", "0", "zero",
     "numpad0", "unknowntoken", ""}

\* A lower() that leaves the string as it is
LowerNothing(t) == t

\* str.lower() on the pieces of the model
Lower(t) == IF t = "CTRL" THEN "ctrl" ELSE t

\* str.strip() on the pieces of the model
StripToken(t) == IF t = " shift" THEN "shift" ELSE t

\* str.upper() on the stripped lower-case pieces of the model
Upper(t) ==
    CASE t = "ctrl" -> "CTRL"
      [] t = "shift" -> "SHIFT"
      [] t = "lctrl" -> "LCTRL"
      [] t = "ctrl_left" -> "CTRL_LEFT"
      [] t = "r" -> "R"
      [] t = "zero" -> "ZERO"
      [] t = "numpad0" -> "NUMPAD0"
      [] t = "unknowntoken" -> "UNKNOWNTOKEN"
      [] OTHER -> t

\* modifier_map
ModifierMap ==
    [ctrl |-> AnyOf({"CTRL_LEFT", "CTRL_RIGHT"}),
     lctrl |-> Key("CTRL_LEFT"),
     rctrl |-> Key("CTRL_RIGHT"),
     shift |-> AnyOf({"SHIFT_LEFT", "SHIFT_RIGHT"}),
     lshift |-> Key("SHIFT_LEFT"),
     rshift |-> Key("SHIFT_RIGHT")]

\* number_map
NumberMap == ("0" :> Key("ZERO"))

\* numpad_map
NumpadMap == [numpad0 |-> Key("NUMPAD_0")]

\* What the loop body adds to `keys` for one piece: a set of at most one
\* element (a KeyError adds nothing)
TokenKeys(piece) ==
    LET key == StripToken(piece)
    IN  IF key \in DOMAIN ModifierMap THEN {ModifierMap[key]}
        ELSE IF key \in DOMAIN NumberMap THEN {NumberMap[key]}
        ELSE IF key \in DOMAIN NumpadMap THEN {NumpadMap[key]}
        ELSE IF Upper(key) \in KeyCodes THEN {Key(Upper(key))}
        ELSE {}

\* parse_key_combination(combination_string), the string being given as
\* its '+'-separated pieces (the empty string is the one piece "")
ParseKeyCombination(c) ==
    IF c = <<"">> THEN {}
    ELSE UNION {TokenKeys(Lower(c[i])) : i \in DOMAIN c}

(* ------------------------------ KeyChord ----------------------------- *)

\* is_single_key: len(keys) == 1 and isinstance(next(iter(keys)), KeyCode)
IsSingleKey(k) == Cardinality(k) = 1 /\ \A s \in k : ~s.alt

\* target_key of a single-key chord
TargetKey(k) == CHOOSE key \in KeyCodes : Key(key) \in k

\* A frozenset element that wants all of its members held
SlotSatisfiedByAll(s, pressed) == s.keys \subseteq pressed

\* The body of the loop of is_active for one element of keys
SlotSatisfied(s, pressed) ==
    IF s.alt THEN \E key \in s.keys : key \in pressed
    ELSE s.keys \subseteq pressed

\* An is_active that is content with one satisfied element
IsActiveForSome(k, pressed) == \E s \in k : SlotSatisfied(s, pressed)

\* An is_active that looks at the frozenset elements only
IsActiveForSets(k, pressed) ==
    \A s \in k : s.alt => SlotSatisfied(s, pressed)

\* KeyChord.is_active()
IsActive(k, pressed) == \A s \in k : SlotSatisfied(s, pressed)

\* A debounce test that wants more than the delay
DebounceElapsedStrictly(current_time, last) ==
    current_time - last > DebounceDelayMs

\* A debounce test that always passes
DebounceElapsedAlways(current_time, last) == TRUE

\* current_time - self.last_trigger_time >= self.debounce_delay
DebounceElapsed(current_time, last) ==
    current_time - last >= DebounceDelayMs

\* KeyChord.update(key, event_type) at current_time: the fields after the
\* call and the value returned
Update(key, type, current_time) ==
    LET pressed == IF type = "KEY_PRESS" THEN pressed_keys \cup {key}
                   ELSE pressed_keys \ {key}
        latch == [pressed |-> pressed, last |-> current_time,
                  rec |-> TRUE, ret |-> TRUE]
        unlatch == [pressed |-> pressed, last |-> last_trigger_time,
                    rec |-> FALSE, ret |-> FALSE]
        same == [pressed |-> pressed, last |-> last_trigger_time,
                 rec |-> chord_is_recording, ret |-> chord_is_recording]
    IN  IF IsSingleKey(keys) /\ key = TargetKey(keys)
        THEN IF type = "KEY_PRESS"
             THEN IF DebounceElapsed(current_time, last_trigger_time)
                  THEN latch ELSE same
             ELSE IF type = "KEY_RELEASE" THEN unlatch ELSE same
        ELSE IF IsActive(keys, pressed)
                  /\ DebounceElapsed(current_time, last_trigger_time)
             THEN latch
             ELSE IF ~IsActive(keys, pressed) /\ chord_is_recording
                  THEN unlatch
                  ELSE same

(* ----------------------------- KeyListener --------------------------- *)

\* A dispatch that looks at the value update returned only
DispatchOnReturn(was_active, is_active) ==
    IF is_active THEN "on_activate" ELSE "none"

\* The callbacks on_input_event triggers for the main chord
Dispatch(was_active, is_active) ==
    IF ~was_active /\ is_active THEN "on_activate"
    ELSE IF was_active /\ ~is_active THEN "on_deactivate"
    ELSE "none"

\* KeyListener.on_input_event((key, event_type)) for the main chord, the
\* backend being active
OnInputEvent ==
    \E key \in EventKeys, type \in EventTypes :
        LET was_active == IsActive(keys, pressed_keys)
            u == Update(key, type, clock)
            callback == Dispatch(was_active, u.ret)
        IN  /\ pressed_keys' = u.pressed
            /\ last_trigger_time' = u.last
            /\ chord_is_recording' = u.rec
            /\ ev' = [key |-> key, type |-> type, was_active |-> was_active,
                      ret |-> u.ret, callback |-> callback]
            /\ last_activate_time' =
                 IF callback = "on_activate" THEN clock
                 ELSE last_activate_time
            /\ dispatched' =
                 IF callback # "none" THEN <<dispatched[2], callback>>
                 ELSE dispatched
            /\ held' = IF type = "KEY_PRESS" THEN held \cup {key}
                       ELSE held \ {key}
            /\ UNCHANGED <<threadVars, keys, clock, parseVars, ctlVars>>

\* Time passes
Tick ==
    /\ clock < ClockStart + MaxTicks * TickMs
    /\ clock' = clock + TickMs
    /\ UNCHANGED <<threadVars, chordVars, held, ev, last_activate_time,
                   dispatched,
                   parseVars, ctlVars>>

\* The configured activation keys of the model; the last two leave a
\* chord without keys
ChordConfigs ==
    {<<"r">>, <<"ctrl">>, <<"ctrl", "r">>, <<"">>, <<"unknowntoken">>}

\* load_activation_keys: the main chord is built from the parsed
\* configuration
ChordInit ==
    /\ ThreadStill
    /\ ControllerStill
    /\ \E c \in ChordConfigs : KeyChordInit(ParseKeyCombination(c))
    /\ clock = ClockStart
    /\ held = {}
    /\ ev = NoEvent
    /\ last_activate_time = NoTime
    /\ dispatched = NoCallbacks
    /\ combination_string = <<>>
    /\ parsed_keys = {}
    /\ parse_returned = FALSE

ChordNext == OnInputEvent \/ Tick

ChordSpec == ChordInit /\ [][ChordNext]_vars

\* The longest configured string, in pieces
MaxTokens == 3

\* The configured strings of the model
Combinations ==
    UNION {[1..n -> Tokens] : n \in 1..MaxTokens}

ParseInit ==
    /\ ThreadStill
    /\ ControllerStill
    /\ KeyChordInit({})
    /\ clock = ClockStart
    /\ held = {}
    /\ ev = NoEvent
    /\ last_activate_time = NoTime
    /\ dispatched = NoCallbacks
    /\ combination_string \in Combinations
    /\ parsed_keys = {}
    /\ parse_returned = FALSE

\* keys = self.parse_key_combination(combination_string)
Parse ==
    /\ ~parse_returned
    /\ parsed_keys' = ParseKeyCombination(combination_string)
    /\ parse_returned' = TRUE
    /\ UNCHANGED <<threadVars, chordVars, clock, held, ev,
                   last_activate_time, dispatched, combination_string,
                   ctlVars>>

ParseSpec == ParseInit /\ [][Parse]_vars

(* ------------------- KeyListener and its backends ------------------- *)

\* The listeners one backend may leave running behind its handle
MaxOrphans == 2

\* The values of recording_options.input_backend: auto, the two names of
\* backend_map, and a name backend_map does not have
InputBackends == {"auto", "evdev", "pynput", "xinput"}

\* backend_map
BackendMap == {"evdev", "pynput"}

\* The backend listens: a listener thread of it runs
Started(b) == b.handle \/ b.orphans > 0

\* The KeyCode members that _create_key_map of each backend names, as far
\* as the model keeps them; KeyCode.NUMPAD_ENTER is named by the evdev
\* table only
KeyMapMembers(name) ==
    IF name = "evdev"
    THEN {"CTRL_LEFT", "CTRL_RIGHT", "SHIFT_LEFT", "SHIFT_RIGHT", "ZERO",
          "NUMPAD_0", "NUMPAD_ENTER", "R", "A"}
    ELSE {"CTRL_LEFT", "CTRL_RIGHT", "SHIFT_LEFT", "SHIFT_RIGHT", "ZERO",
          "NUMPAD_0", "R", "A"}

\* _create_key_map(): the dict display is evaluated entry by entry, and an
\* attribute reference KeyCode.X raises AttributeError when X is no member
\* of the enumeration
CreateKeyMap(name) ==
    IF KeyMapMembers(name) \subseteq KeyCodes
    THEN "key_map" ELSE "AttributeError"

\* EvdevBackend.start / PynputBackend.start: the key map is built, then a
\* new listener is created and started, and the backend refers to it; a
\* listener it referred to before keeps running.  An exception of
\* _create_key_map leaves start() before any listener is created.
BackendStart(name, b) ==
    IF CreateKeyMap(name) = "AttributeError"
    THEN b
    ELSE [handle |-> TRUE,
          orphans |-> IF b.handle THEN b.orphans + 1 ELSE b.orphans]

\* A stop that ends every listener of either backend
BackendStopAll(name, b) == [handle |-> FALSE, orphans |-> 0]

\* EvdevBackend.stop: stop_event is set, which every thread of the backend
\* polls.  PynputBackend.stop: the listeners the backend refers to are
\* stopped and forgotten.
BackendStop(name, b) ==
    [handle |-> FALSE,
     orphans |-> IF name = "evdev" THEN 0 ELSE b.orphans]

\* KeyListener.start()
ListenerStart(L) ==
    IF L.active_backend # NoBackend
    THEN IF CreateKeyMap(L.active_backend) = "AttributeError"
         THEN [L EXCEPT !.raised = "AttributeError"]
         ELSE [L EXCEPT
                 !.state[L.active_backend] =
                     BackendStart(L.active_backend, @),
                 !.double_start = @ \/ L.state[L.active_backend].handle]
    ELSE [L EXCEPT !.raised = "RuntimeError"]

\* KeyListener.stop()
ListenerStop(L) ==
    IF L.active_backend # NoBackend
    THEN [L EXCEPT !.state[L.active_backend] =
                       BackendStop(L.active_backend, @)]
    ELSE L

\* A select_active_backend that takes the last backend of the list
SelectLastBackend(L) ==
    IF L.backends = <<>>
    THEN [L EXCEPT !.raised = "RuntimeError"]
    ELSE [L EXCEPT !.active_backend = L.backends[Len(L.backends)]]

\* KeyListener.select_active_backend()
SelectActiveBackend(L) ==
    IF L.backends = <<>>
    THEN [L EXCEPT !.raised = "RuntimeError"]
    ELSE [L EXCEPT !.active_backend = L.backends[1]]

\* KeyListener.set_active_backend(backend_class)
SetActiveBackend(L, backend_class) ==
    IF \E i \in DOMAIN L.backends : L.backends[i] = backend_class
    THEN LET stopped == IF L.active_backend # NoBackend
                        THEN ListenerStop(L) ELSE L
         IN  ListenerStart([stopped EXCEPT !.active_backend = backend_class])
    ELSE [L EXCEPT !.raised = "ValueError"]

\* KeyListener.select_backend_from_config(), the configuration holding
\* preferred_backend
SelectBackendFromConfig(L, preferred_backend) ==
    IF preferred_backend = "auto" THEN SelectActiveBackend(L)
    ELSE IF preferred_backend \in BackendMap
         THEN LET set == SetActiveBackend(L, preferred_backend)
              IN  IF set.raised = "ValueError"
                  THEN SelectActiveBackend(L)
                  ELSE set
         ELSE SelectActiveBackend(L)

\* KeyListener.initialize_backends()
InitializeBackends(avail) ==
    SelectSeq(BackendClasses, LAMBDA name : name \in avail)

\* KeyListener.__init__(): the listener it leaves, or the exception it
\* raises (field raised)
KeyListenerInit(avail, preferred_backend) ==
    SelectBackendFromConfig(
        [NoListener EXCEPT !.built = TRUE,
                           !.backends = InitializeBackends(avail)],
        preferred_backend)

\* No backend has more than MaxOrphans orphaned listeners
WithinOrphans(L) == \A b \in BackendNames : L.state[b].orphans <= MaxOrphans

\* A call of a KeyListener method that leaves the listener r (or raised):
\* an exception leaves the object as the method left it, apart from a
\* constructor, which leaves no object
Called(op, r) ==
    /\ WithinOrphans(r)
    /\ key_listener' = IF r.raised = "none" THEN r
                       ELSE IF op = "init" THEN NoListener
                       ELSE [r EXCEPT !.raised = "none"]
    /\ kl_call' = [op |-> op, raised |-> r.raised,
                   preferred |-> input_backend]

\* key_listener = KeyListener()
Construct ==
    /\ ~key_listener.built
    /\ kl_call = NoCall
    /\ Called("init", KeyListenerInit(available, input_backend))
    /\ UNCHANGED <<threadVars, chordVars, clock, held, ev,
                   last_activate_time, dispatched, parseVars, readVars, available, input_backend,
                   appVars>>

\* key_listener.start()
CallStart ==
    /\ key_listener.built
    /\ Called("start", ListenerStart(key_listener))
    /\ UNCHANGED <<threadVars, chordVars, clock, held, ev,
                   last_activate_time, dispatched, parseVars, readVars, available, input_backend,
                   appVars>>

\* key_listener.stop()
CallStop ==
    /\ key_listener.built
    /\ Called("stop", ListenerStop(key_listener))
    /\ UNCHANGED <<threadVars, chordVars, clock, held, ev,
                   last_activate_time, dispatched, parseVars, readVars, available, input_backend,
                   appVars>>

\* key_listener.update_backend()
CallUpdateBackend ==
    /\ key_listener.built
    /\ Called("update_backend",
              SelectBackendFromConfig(key_listener, input_backend))
    /\ UNCHANGED <<threadVars, chordVars, clock, held, ev,
                   last_activate_time, dispatched, parseVars, readVars, available, input_backend,
                   appVars>>

\* The settings are changed: recording_options.input_backend gets another
\* value
SetInputBackend ==
    /\ key_listener.built
    /\ input_backend' \in InputBackends \ {input_backend}
    /\ UNCHANGED <<threadVars, chordVars, clock, held, ev,
                   last_activate_time, dispatched, parseVars, readVars, available, key_listener,
                   kl_call, appVars>>

\* Any set of available backends and any configured value, before the
\* KeyListener is constructed
ListenerInit ==
    /\ ThreadStill
    /\ KeyChordInit({})
    /\ clock = ClockStart
    /\ held = {}
    /\ ev = NoEvent
    /\ last_activate_time = NoTime
    /\ dispatched = NoCallbacks
    /\ combination_string = <<>>
    /\ parsed_keys = {}
    /\ parse_returned = FALSE
    /\ available \in SUBSET BackendNames
    /\ input_backend \in InputBackends
    /\ key_listener = NoListener
    /\ kl_call = NoCall
    /\ read_call = NoRead
    /\ result_thread = "None"
    /\ result_queued = FALSE
    /\ sessions = 0
    /\ app_event = NoHandler
    /\ NoSessions
    /\ llm_processor = FALSE

ListenerNext ==
    Construct \/ CallStart \/ CallStop \/ CallUpdateBackend
        \/ SetInputBackend

ListenerSpec == ListenerInit /\ [][ListenerNext]_vars

(* ------------------ WhisperWriterApp (src/src/main.py) --------------- *)

\* The ResultThreads one run of the application starts
MaxSessions == 3

\* `self.result_thread and self.result_thread.isRunning()`: run() has not
\* returned
ResultThreadIsRunning == result_thread \in {"running", "emitted"}

\* The listener threads of a backend run and deliver events to
\* KeyListener.on_input_event
Listening ==
    /\ key_listener.built
    /\ \E b \in BackendNames : Started(key_listener.state[b])

\* The arguments with which the callbacks of the three activation chords
\* call on_activation and on_deactivation
ChordFlags == {Flags(FALSE, FALSE), Flags(TRUE, FALSE), Flags(TRUE, TRUE)}

\* A session that on_activation is about to start
Reserved == IF activation.pc = "starting" THEN 1 ELSE 0

\* WhisperWriterApp.__init__ with a configuration file:
\* initialize_components(), which constructs the KeyListener, then
\* key_listener.start()
AppStart ==
    /\ ~key_listener.built
    /\ app_event = NoHandler
    /\ LET k == KeyListenerInit(available, input_backend)
           listening == IF k.raised = "none" THEN ListenerStart(k) ELSE k
       IN  IF listening.raised = "none"
           THEN /\ key_listener' = listening
                /\ app_event' = [handler |-> "init", path |-> "started",
                                 started |-> FALSE]
           ELSE /\ key_listener' = NoListener
                /\ app_event' = [handler |-> "init", path |-> "raised",
                                 started |-> FALSE]
    /\ UNCHANGED <<threadVars, chordVars, clock, held, ev,
                   last_activate_time, dispatched, parseVars, readVars,
                   available, input_backend, kl_call, result_thread,
                   result_queued, sessions, llm_processor, use_llm,
                   is_instruction_mode, activation, session_flags,
                   result_flags, lost_threads>>

\* on_activation(use_llm, is_instruction_mode), called by a listener
\* thread on the rising edge of an activation chord, up to the test of
\* start_result_thread: a running session is stopped (continuous mode;
\* stop() returns when run() has returned, which may have emitted its
\* result before it saw is_running) or asked to stop recording; when none
\* runs the flags are stored and start_result_thread passes its test
OnActivation ==
    /\ Listening
    /\ activation.pc = "idle"
    /\ \E flags \in ChordFlags :
         IF ResultThreadIsRunning
         THEN /\ IF recording_mode = "continuous"
                 THEN /\ result_thread' = "finished"
                      /\ \/ UNCHANGED <<result_queued, result_flags>>
                         \/ /\ result_thread = "running"
                            /\ ~result_queued
                            /\ result_queued' = TRUE
                            /\ result_flags' = session_flags
                 ELSE UNCHANGED <<result_thread, result_queued,
                                  result_flags>>
              /\ app_event' = [handler |-> "on_activation",
                               path |-> "running", started |-> FALSE]
              /\ UNCHANGED <<use_llm, is_instruction_mode, activation>>
         ELSE /\ sessions < MaxSessions
              /\ use_llm' = flags.use_llm
              /\ is_instruction_mode' = flags.is_instruction_mode
              /\ activation' = [pc |-> "starting", flags |-> flags]
              /\ app_event' = [handler |-> "on_activation",
                               path |-> "start", started |-> FALSE]
              /\ UNCHANGED <<result_thread, result_queued, result_flags>>
    /\ UNCHANGED <<threadVars, chordVars, clock, held, ev,
                   last_activate_time, dispatched, parseVars, readVars,
                   listenerVars, sessions, llm_processor, session_flags,
                   lost_threads>>

\* start_result_thread after its test, called by on_activation: a new
\* ResultThread is created, assigned to self.result_thread and started.
\* A thread that self.result_thread referred to keeps running.
ActivationStarts ==
    /\ activation.pc = "starting"
    /\ lost_threads' =
         IF ResultThreadIsRunning THEN lost_threads + 1 ELSE lost_threads
    /\ result_thread' = "running"
    /\ sessions' = sessions + 1
    /\ session_flags' = activation.flags
    /\ activation' = NoActivation
    /\ app_event' = [handler |-> "on_activation", path |-> "start",
                     started |-> TRUE]
    /\ UNCHANGED <<threadVars, chordVars, clock, held, ev,
                   last_activate_time, dispatched, parseVars, readVars,
                   listenerVars, result_queued, llm_processor, use_llm,
                   is_instruction_mode, result_flags>>

\* on_deactivation(use_llm, is_instruction_mode), called by a listener
\* thread on the falling edge of an activation chord: the flags are
\* stored, and in hold_to_record mode a running session is asked to stop
\* recording
OnDeactivation ==
    /\ Listening
    /\ activation.pc = "idle"
    /\ \E flags \in ChordFlags :
         /\ use_llm' = flags.use_llm
         /\ is_instruction_mode' = flags.is_instruction_mode
    /\ app_event' =
         [handler |-> "on_deactivation",
          path |-> IF recording_mode = "hold_to_record"
                        /\ ResultThreadIsRunning
                   THEN "stop_recording" ELSE "flags",
          started |-> FALSE]
    /\ UNCHANGED <<threadVars, chordVars, clock, held, ev,
                   last_activate_time, dispatched, parseVars, readVars,
                   listenerVars, result_thread, result_queued, sessions,
                   llm_processor, activation, session_flags, result_flags,
                   lost_threads>>

\* ResultThread.run: resultSignal.emit(result); the slot runs later, on
\* the main thread
WorkerEmits ==
    /\ result_thread = "running"
    /\ ~result_queued
    /\ result_thread' = "emitted"
    /\ result_queued' = TRUE
    /\ result_flags' = session_flags
    /\ UNCHANGED <<threadVars, chordVars, clock, held, ev,
                   last_activate_time, dispatched, parseVars, readVars,
                   listenerVars, sessions, app_event, llm_processor,
                   use_llm, is_instruction_mode, activation, session_flags,
                   lost_threads>>

\* ResultThread.run returns: after the emission (the media is resumed and
\* the finally block runs first), or without one
WorkerReturns ==
    /\ ResultThreadIsRunning
    /\ result_thread' = "finished"
    /\ UNCHANGED <<threadVars, chordVars, clock, held, ev,
                   last_activate_time, dispatched, parseVars, readVars,
                   listenerVars, result_queued, sessions, app_event,
                   llm_processor, use_llm, is_instruction_mode, activation,
                   session_flags, result_flags, lost_threads>>

\* run() of a ResultThread that self.result_thread no longer refers to
\* returns (such a thread is followed no further than that)
LostWorkerReturns ==
    /\ lost_threads > 0
    /\ lost_threads' = lost_threads - 1
    /\ UNCHANGED <<threadVars, chordVars, clock, held, ev,
                   last_activate_time, dispatched, parseVars, readVars,
                   listenerVars, result_thread, result_queued, sessions,
                   app_event, llm_processor, use_llm, is_instruction_mode,
                   activation, session_flags, result_flags>>

\* The ways through on_transcription_complete: the result is typed
\* (without the LLM stage, or after it), or the LLM stage returns early
\* (no system message, or an exception of the LLM call)
CompletePaths ==
    IF use_llm /\ llm_processor THEN {"typed", "llm_returned"}
    ELSE {"typed"}

\* on_transcription_complete(result), on the main thread
OnTranscriptionComplete ==
    /\ key_listener.built
    /\ result_queued
    /\ \E path \in CompletePaths :
         LET stopped == ListenerStop(key_listener)
             restart == path = "typed" /\ recording_mode = "continuous"
             start == restart /\ ~ResultThreadIsRunning
             tail == IF path = "typed" /\ ~restart
                     THEN ListenerStart(stopped) ELSE stopped
             final == ListenerStart(tail)
         IN  /\ start => sessions + Reserved < MaxSessions
             /\ WithinOrphans(final)
             /\ key_listener' = final
             /\ result_thread' = IF start THEN "running" ELSE result_thread
             /\ sessions' = IF start THEN sessions + 1 ELSE sessions
             /\ session_flags' = IF start
                                 THEN Flags(use_llm, is_instruction_mode)
                                 ELSE session_flags
             /\ app_event' = [handler |-> "on_transcription_complete",
                              path |-> path, started |-> start]
    /\ result_queued' = FALSE
    /\ UNCHANGED <<threadVars, chordVars, clock, held, ev,
                   last_activate_time, dispatched, parseVars, readVars,
                   available, input_backend, kl_call, llm_processor,
                   use_llm, is_instruction_mode, activation, result_flags,
                   lost_threads>>

\* handle_text_cleanup, called by a listener thread on the rising edge of
\* the text-cleanup chord
HandleTextCleanup ==
    /\ Listening
    /\ activation.pc = "idle"
    /\ IF llm_processor
       THEN LET final == ListenerStart(key_listener)
            IN  /\ WithinOrphans(final)
                /\ key_listener' = final
                /\ app_event' = [handler |-> "handle_text_cleanup",
                                 path |-> "cleaned", started |-> FALSE]
       ELSE /\ UNCHANGED key_listener
            /\ app_event' = [handler |-> "handle_text_cleanup",
                             path |-> "no_llm", started |-> FALSE]
    /\ UNCHANGED <<threadVars, chordVars, clock, held, ev,
                   last_activate_time, dispatched, parseVars, readVars,
                   available, input_backend, kl_call, result_thread,
                   result_queued, sessions, llm_processor, use_llm,
                   is_instruction_mode, activation, session_flags,
                   result_flags, lost_threads>>

\* The application before WhisperWriterApp() is called, for every
\* configuration
AppInit ==
    /\ recording_mode \in RecordingModes
    /\ ThreadUnstarted
    /\ KeyChordInit({})
    /\ clock = ClockStart
    /\ held = {}
    /\ ev = NoEvent
    /\ last_activate_time = NoTime
    /\ dispatched = NoCallbacks
    /\ combination_string = <<>>
    /\ parsed_keys = {}
    /\ parse_returned = FALSE
    /\ available \in SUBSET BackendNames
    /\ input_backend \in InputBackends
    /\ key_listener = NoListener
    /\ kl_call = NoCall
    /\ read_call = NoRead
    /\ result_thread = "None"
    /\ result_queued = FALSE
    /\ sessions = 0
    /\ app_event = NoHandler
    /\ NoSessions
    /\ llm_processor \in BOOLEAN

AppNext ==
    AppStart \/ OnActivation \/ ActivationStarts \/ OnDeactivation
        \/ WorkerEmits \/ WorkerReturns \/ LostWorkerReturns
        \/ OnTranscriptionComplete \/ HandleTextCleanup

AppSpec == AppInit /\ [][AppNext]_vars

(* ------------- the backends' handlers of native key events ------------ *)

\* The longest batch of events that one device.read() returns
MaxBatch == 2

\* Native events of a device: key events (type EV_KEY, a scancode and a
\* key state) and others.  KEY_POWER is a scancode that the key map of
\* the evdev backend does not hold.
Scancodes == {"KEY_LEFTCTRL", "KEY_R", "KEY_POWER"}
Keystates == {"key_down", "key_hold", "key_up"}
NativeEvents ==
    [type : {"EV_KEY"}, scancode : Scancodes, keystate : Keystates]
        \cup {[type |-> "EV_SYN", scancode |-> "SYN_REPORT",
               keystate |-> "key_up"]}

\* Keys and buttons as pynput reports them: members of Key, KeyCode
\* objects (with a character or a virtual key code; vk = -1 is None), and
\* mouse buttons
PynputKeys ==
    {[cls |-> "Key", name |-> "ctrl_l", vk |-> -1],
     [cls |-> "Key", name |-> "insert_unknown", vk |-> -1],
     [cls |-> "KeyCode", name |-> "r", vk |-> -1],
     [cls |-> "KeyCode", name |-> "None", vk |-> 96],
     [cls |-> "KeyCode", name |-> "None", vk |-> 108],
     [cls |-> "KeyCode", name |-> "None", vk |-> 48],
     [cls |-> "KeyCode", name |-> "None", vk |-> 255]}
PynputButtons ==
    {[cls |-> "Button", name |-> "left", vk |-> -1],
     [cls |-> "Button", name |-> "button8", vk |-> -1]}

\* What _translate_key_event returns: a pair, or None
Translated(key_code, event_type) ==
    [key_code |-> key_code, event_type |-> event_type]
NoTranslation == Translated("None", "None")

\* EvdevBackend.key_map.get(scancode)
EvdevKeyMap(scancode) ==
    CASE scancode = "KEY_LEFTCTRL" -> "CTRL_LEFT"
      [] scancode = "KEY_R" -> "R"
      [] OTHER -> "None"

\* PynputBackend.key_map.get(key): the table is keyed by Key members, by
\* KeyCode.from_char and KeyCode.from_vk objects and by mouse buttons
PynputKeyMap(key) ==
    CASE key.cls = "Key" /\ key.name = "ctrl_l" -> "CTRL_LEFT"
      [] key.cls = "KeyCode" /\ key.name = "r" /\ key.vk = -1 -> "R"
      [] key.cls = "KeyCode" /\ key.name = "None" /\ key.vk = 96 ->
             "NUMPAD_0"
      [] key.cls = "Button" /\ key.name = "left" -> "MOUSE_LEFT"
      [] OTHER -> "None"

\* EvdevBackend._translate_key_event(native_event), the event carrying a
\* key state
EvdevTranslateKeyEvent(native_event) ==
    LET event_type ==
            IF native_event.keystate \in {"key_down", "key_hold"}
            THEN "KEY_PRESS"
            ELSE IF native_event.keystate = "key_up"
                 THEN "KEY_RELEASE" ELSE "None"
        key_code == EvdevKeyMap(native_event.scancode)
    IN  IF event_type = "None" THEN NoTranslation
        ELSE IF key_code = "None" THEN NoTranslation
        ELSE Translated(key_code, event_type)

\* PynputBackend._translate_key_event((pynput_key, is_press))
PynputTranslateKeyEvent(pynput_key, is_press) ==
    LET event_type == IF is_press THEN "KEY_PRESS" ELSE "KEY_RELEASE"
        vk == pynput_key.vk
        from_vk == [cls |-> "KeyCode", name |-> "None", vk |-> vk]
        has_vk == pynput_key.cls = "KeyCode" /\ vk # -1
        numpad_map == (96 .. 107) \cup {109, 110, 111}
    IN  IF has_vk /\ 96 <= vk /\ vk <= 111 /\ vk \in numpad_map
        THEN Translated(IF vk = 96 THEN "NUMPAD_0" ELSE "NUMPAD",
                        event_type)
        ELSE IF has_vk /\ PynputKeyMap(from_vk) # "None"
        THEN Translated(PynputKeyMap(from_vk), event_type)
        ELSE IF has_vk /\ 48 <= vk /\ vk <= 57
        THEN Translated(IF vk = 48 THEN "ZERO" ELSE "NUMBER", event_type)
        ELSE IF PynputKeyMap(pynput_key) = "None" THEN NoTranslation
        ELSE Translated(PynputKeyMap(pynput_key), event_type)

\* EvdevBackend._read_device_events(device), from the i-th event of the
\* batch that device.read() returned: _handle_input_event unpacks what
\* _translate_key_event returns, which raises TypeError for None; the
\* except clause hands the exception to _handle_device_error, which
\* prints it, and the loop over the batch is left
RECURSIVE ReadFrom(_, _, _)
ReadFrom(batch, i, delivered) ==
    IF i > Len(batch)
    THEN [delivered |-> delivered, reported |-> FALSE]
    ELSE IF batch[i].type # "EV_KEY"
    THEN ReadFrom(batch, i + 1, delivered)
    ELSE LET translated == EvdevTranslateKeyEvent(batch[i])
         IN  IF translated = NoTranslation
             THEN [delivered |-> delivered, reported |-> TRUE]
             ELSE ReadFrom(batch, i + 1, Append(delivered, translated))

\* The batches of at most n events
Batches(n) == UNION {[1..k -> NativeEvents] : k \in 0..n}

\* The polling thread reads a batch of a device that select reported
ReadDeviceEvents ==
    /\ \E batch \in Batches(MaxBatch) :
         LET read == ReadFrom(batch, 1, <<>>)
         IN  read_call' = [NoRead EXCEPT
                             !.handler = "_read_device_events",
                             !.batch = batch,
                             !.delivered = read.delivered,
                             !.reported = read.reported]
    /\ UNCHANGED <<threadVars, chordVars, clock, held, ev,
                   last_activate_time, dispatched, parseVars, listenerVars, appVars>>

\* A handler of the pynput listeners: the event is handed to
\* on_input_event when its translation is not None
PynputHandler(handler, key, is_press) ==
    LET translated_event == PynputTranslateKeyEvent(key, is_press)
    IN  [NoRead EXCEPT !.handler = handler,
                       !.key = key,
                       !.delivered = IF translated_event # NoTranslation
                                     THEN <<translated_event>> ELSE <<>>]

\* PynputBackend._on_keyboard_press(key)
OnKeyboardPress ==
    /\ \E key \in PynputKeys :
         read_call' = PynputHandler("_on_keyboard_press", key, TRUE)
    /\ UNCHANGED <<threadVars, chordVars, clock, held, ev,
                   last_activate_time, dispatched, parseVars, listenerVars, appVars>>

\* PynputBackend._on_keyboard_release(key)
OnKeyboardRelease ==
    /\ \E key \in PynputKeys :
         read_call' = PynputHandler("_on_keyboard_release", key, FALSE)
    /\ UNCHANGED <<threadVars, chordVars, clock, held, ev,
                   last_activate_time, dispatched, parseVars, listenerVars, appVars>>

\* PynputBackend._on_mouse_click(x, y, button, pressed)
OnMouseClick ==
    /\ \E button \in PynputButtons, pressed \in BOOLEAN :
         read_call' = PynputHandler("_on_mouse_click", button, pressed)
    /\ UNCHANGED <<threadVars, chordVars, clock, held, ev,
                   last_activate_time, dispatched, parseVars, listenerVars, appVars>>

\* No native event was handled yet
ReadInit == ThreadStill /\ ListenerStill

ReadNext ==
    ReadDeviceEvents \/ OnKeyboardPress \/ OnKeyboardRelease
        \/ OnMouseClick

ReadSpec == ReadInit /\ [][ReadNext]_vars

(* ------------------------ vocabulary of the claims ------------------- *)

Last(q) == q[Len(q)]

\* A text with a character that is not whitespace
NonBlank(t) == \E i \in 1..Len(t) : t[i] # " "

\* Call i of transcribe returned non-empty, non-whitespace text
AttemptOk(i) ==
    /\ ~transcribe_calls[i].out.raised
    /\ NonBlank(transcribe_calls[i].out.text)

\* The index of the first successful attempt, 0 when there is none
FirstOk ==
    IF \E i \in DOMAIN transcribe_calls : AttemptOk(i)
    THEN CHOOSE i \in DOMAIN transcribe_calls :
            AttemptOk(i) /\ \A j \in 1..(i - 1) : ~AttemptOk(j)
    ELSE 0

\* The retry loop was entered and has ended
LoopEnded == attempt > 0 /\ pc # "attempt"

\* Every attempt of the ended loop failed
AllFailed == LoopEnded /\ FirstOk = 0

SomeRaised == \E i \in DOMAIN transcribe_calls : transcribe_calls[i].out.raised

\* The statuses emitted by run itself (stop() emits on the same signal)
RunStatuses == SelectSeq(statuses, LAMBDA e : e.by = "run")

TerminalStatuses == {"idle", "transcription_failed", "error"}

\* _record_audio returned None: discarded as too short, or timed out
CaptureDropped ==
    /\ pc \in {"check_running2", "check_audio", "finally", "done"}
    /\ sample_rate # NoneRate
    /\ exc = "none"
    /\ audio_data = NoneAudio

(* ------------------------------- claims ------------------------------ *)

\* C1: once a recording was obtained, transcribe is called at most 3 times;
\* when the loop has ended the number of calls is the index of the first
\* attempt that returned non-blank text, or 3 if none did; no call follows
\* a successful one; and an attempt that raises leaves the loop running
\* (or ends it as the third failure) without entering the top-level
\* handler.
C1_RetryCount ==
    /\ Len(transcribe_calls) <= 3
    /\ FirstOk \in {0, Len(transcribe_calls)}
    /\ LoopEnded =>
         Len(transcribe_calls) = (IF FirstOk = 0 THEN 3 ELSE FirstOk)
    /\ (transcribe_calls # <<>> /\ Last(transcribe_calls).out.raised) =>
         /\ exc = "none"
         /\ IF Len(transcribe_calls) < 3
            THEN pc = "attempt"
            ELSE pc \notin {"attempt", "except", "except_result"}

\* C1 witness: the loop ended after raise, blank, success on attempt 3
C1_Witness ==
    /\ pc = "check_result"
    /\ Len(transcribe_calls) = 3
    /\ transcribe_calls[1].out.raised
    /\ ~transcribe_calls[2].out.raised
    /\ FirstOk = 3

\* C2: when all 3 attempts failed, the failed-audio save path is called
\* exactly once, with the captured audio that was handed to transcribe, and
\* the last status run emits is 'transcription_failed'.
C2_ExhaustionSavesAndFails ==
    /\ Len(save_calls) <= 1
    /\ (AllFailed /\ pc = "done") =>
         /\ Len(transcribe_calls) = 3
         /\ save_calls = <<audio_data>>
         /\ \A i \in DOMAIN transcribe_calls :
              transcribe_calls[i].audio = save_calls[1]
         /\ save_calls[1] > 0
         /\ RunStatuses # <<>>
         /\ Last(RunStatuses).status = "transcription_failed"

\* C2 witness: a session ended after three failures, one of them a raise
\* and one a whitespace-only text
C2_Witness ==
    /\ pc = "done"
    /\ AllFailed
    /\ SomeRaised
    /\ \E i \in DOMAIN transcribe_calls :
         transcribe_calls[i].out.text = <<" ">>

\* C3 (as claimed): if an attempt returned non-blank text, the failed-audio
\* save path is never invoked and every text emitted on resultSignal is the
\* text of the first successful attempt.
C3_ResultIsFirstSuccess ==
    FirstOk > 0 =>
      /\ save_calls = <<>>
      /\ \A i \in DOMAIN results :
           results[i].text = transcribe_calls[FirstOk].out.text

\* C4 (as claimed): a session whose transcription succeeded and which was
\* not stopped ends with exactly one result emitted, the transcript, right
\* after status 'idle'.
C4_ResultExactlyOnce ==
    (pc = "done" /\ FirstOk > 0 /\ stop_pc = "idle") =>
      /\ Len(results) = 1
      /\ results[1].text = transcribe_calls[FirstOk].out.text
      /\ results[1].pos > 0
      /\ statuses[results[1].pos] = [by |-> "run", status |-> "idle"]

\* C5: a session in which all attempts failed, or whose capture was
\* discarded as too short or aborted by the continuous-mode timeout, never
\* emits resultSignal.
C5_NoResultOnFailure ==
    (AllFailed \/ CaptureDropped) => results = <<>>

\* C5 witness: a capture discarded as too short (stop_recording after one
\* frame) in a session that ended
C5_Witness ==
    /\ pc = "done"
    /\ CaptureDropped
    /\ is_running
    /\ stop_recording_called
    /\ RunStatuses # <<>>
    /\ Last(RunStatuses).status = "idle"

C7_StopRecordingNotLost ==
    (stop_recording_called /\ pc = "ra_loop") => ~is_recording

\* C8 (as claimed): when the session has ended (run returned, no stop() in
\* flight), the last status emitted is a terminal one.
C8_LastStatusTerminal ==
    (pc = "done" /\ stop_pc \in {"idle", "returned"}) =>
      /\ statuses # <<>>
      /\ Last(statuses).status \in TerminalStatuses

\* C9: stop() has set is_running to False before anything else it does and
\* returns only after run has returned; is_running never becomes True
\* again; and once is_running is False, run returns.
C9_StopJoins ==
    /\ [](stop_pc # "idle" => ~is_running)
    /\ [](stop_pc = "returned" => pc = "done")
    /\ [][~is_running => ~is_running']_vars
    /\ (~is_running ~> pc = "done")

\* C9 witness: stop() returned in a session that it interrupted while
\* recording
C9_Witness ==
    /\ stop_pc = "returned"
    /\ pc = "done"
    /\ sample_rate # NoneRate
    /\ RunStatuses # <<>>
    /\ Last(RunStatuses).status = "recording"

\* C10 (as claimed): in voice_activity_detection and continuous modes, once
\* speech was detected, a run of more than silence_frames consecutive
\* non-speech frames has ended the loop by the time its condition is
\* tested again.
C10_SilenceEndsRecording ==
    (recording_mode \in VadModes /\ speech_detected
        /\ silent_run > SilenceFrames) => pc # "ra_loop"

\* C11 (as claimed): in continuous mode with a timeout N > 0 and no frame
\* classified as speech, the frame the loop takes when more than N has
\* elapsed since recording began ends the session: the loop does not go
\* back to its condition for another frame.
C11_AbortsAtFirstFrame ==
    [][(/\ pc = "ra_clear"
        /\ pc' # pc
        /\ recording_mode = "continuous"
        /\ continuous_timeout > 0
        /\ ~speech_detected
        /\ now - last_speech_time > continuous_timeout) => pc' # "ra_loop"]_vars

\* The session was aborted by the continuous-mode timeout (stop() was not
\* called: nothing else sets is_running to False)
TimeoutAborted == ~is_running /\ stop_pc = "idle"

\* C11 (amended): in continuous mode with a timeout N > 0, the timeout is
\* tested for each frame after the initial_frames_to_skip leading ones, and
\* the first such test made when more than N has elapsed since recording
\* began (no speech) aborts the session: is_running becomes False, run
\* emits 'idle' and _record_audio returns None; the test aborts in no other
\* case; transcribe is never called and no result is emitted.
C11_TimeoutAborts ==
    /\ [][(pc = "ra_timeout" /\ pc' # pc) =>
            IF /\ recording_mode = "continuous"
               /\ continuous_timeout > 0
               /\ now - last_speech_time > continuous_timeout
            THEN /\ ~is_running' /\ ~is_recording'
                 /\ statuses' =
                      Append(statuses, [by |-> "run", status |-> "idle"])
                 /\ audio_data' = NoneAudio
                 /\ pc' = "check_running2"
            ELSE /\ pc' = "ra_silence"
                 /\ is_running' = is_running
                 /\ statuses' = statuses]_vars
    /\ [][(pc = "ra_clear" /\ pc' # pc) =>
            pc' = (IF initial_frames_to_skip > 0
                   THEN "ra_loop" ELSE "ra_vad")]_vars
    /\ [](TimeoutAborted => transcribe_calls = <<>> /\ results = <<>>)

\* C11 witness: run returned after the timeout aborted a session in which
\* no speech was detected
C11_Witness ==
    /\ pc = "done"
    /\ TimeoutAborted
    /\ recording_mode = "continuous"
    /\ continuous_timeout > 0
    /\ Last(statuses) = [by |-> "run", status |-> "idle"]

\* C12 (as claimed): the capture is kept iff its duration in milliseconds,
\* samples * 1000 / sample_rate, is at least the configured min_duration.
C12_KeptIffAtLeastMin ==
    [][(pc = "ra_finish" /\ pc' # pc) =>
         ((audio_data' # NoneAudio) <=>
            ~TooShortExact(recording * FrameSize, sample_rate, min_duration))
      ]_vars

\* C13: whenever the audio is None or has length 0, or the sample rate is
\* unset, zero or negative, _save_failed_audio returns the empty path,
\* calls neither os.makedirs nor sf.write, and does not raise.
C13_RefusedSaveWritesNothing ==
    \A i \in DOMAIN save_returns :
        (\/ save_calls[i] = NoneAudio
         \/ save_calls[i] = 0
         \/ sample_rate = NoneRate
         \/ sample_rate <= 0) =>
            /\ save_returns[i].path = ""
            /\ save_returns[i].makedirs = 0
            /\ save_returns[i].writes = 0
            /\ file_writes = 0
            /\ exc = "none"

\* C13 witness: a save of audio of some length was refused for its sample
\* rate of zero
C13_Witness ==
    /\ save_returns # <<>>
    /\ save_calls[1] > 0
    /\ sample_rate = 0
    /\ save_returns[1].path = ""

\* C14: when os.makedirs or sf.write raises, _save_failed_audio returns
\* the empty path and nothing reaches the handler of run; and the session
\* whose attempts are exhausted ends with 'transcription_failed' as the
\* last status of run and no result, whatever the save returned.
C14_SaveFailureIsSwallowed ==
    /\ \A i \in DOMAIN save_returns :
          /\ save_returns[i].io # "ok" => save_returns[i].path = ""
          /\ save_returns[i].io = "ok" => save_returns[i].path # ""
    /\ save_returns # <<>> =>
          /\ exc = "none"
          /\ pc \in {"emit_failed", "finally", "done"}
          /\ results = <<>>
    /\ (pc = "done" /\ AllFailed) =>
          /\ Len(save_returns) = 1
          /\ Last(RunStatuses).status = "transcription_failed"

\* C14 witness: the session ended after sf.write raised in the save
C14_Witness ==
    /\ pc = "done"
    /\ AllFailed
    /\ save_returns[1].io = "write_raises"
    /\ save_returns[1].path = ""
    /\ file_writes = 1

\* A step of on_input_event (time stands still); ev' is the event handled
InputStep == clock' = clock

\* The event just handled is a press / a release of the single-key
\* chord's target key
TargetEvent(type) ==
    /\ IsSingleKey(keys)
    /\ ev'.key = TargetKey(keys)
    /\ ev'.type = type

\* C15: for a single-key chord, update with a press of the target key,
\* the chord being un-latched and at least 300 ms having passed since
\* last_trigger_time, returns True and latches is_recording; update with a
\* release of the target key returns False and un-latches, whatever the
\* time since the last trigger.
C15_SingleKeyPressAndRelease ==
    [][/\ (/\ InputStep
           /\ TargetEvent("KEY_PRESS")
           /\ ~chord_is_recording
           /\ clock - last_trigger_time >= 300) =>
             (ev'.ret /\ chord_is_recording' /\ last_trigger_time' = clock)
       /\ (InputStep /\ TargetEvent("KEY_RELEASE")) =>
             (~ev'.ret /\ ~chord_is_recording')]_vars

\* C15 witness: the target key was released, and update returned False,
\* less than 300 ms after its press had latched the chord
C15_Witness ==
    /\ IsSingleKey(keys)
    /\ ev = [key |-> TargetKey(keys), type |-> "KEY_RELEASE",
             was_active |-> TRUE, ret |-> FALSE,
             callback |-> "on_deactivate"]
    /\ last_trigger_time > 0
    /\ clock - last_trigger_time < 300
    /\ ~chord_is_recording

\* Every slot of the chord is satisfied by the keys that are held: a plain
\* slot by its key, an alternative-set slot by at least one member
SlotsHeld ==
    \A s \in keys :
        IF s.alt THEN s.keys \cap held # {} ELSE s.keys \subseteq held

\* C16: for a multi-key chord, after every sequence of KEY_PRESS and
\* KEY_RELEASE updates at any timing, is_active() is True iff every slot
\* is satisfied by the keys currently held, whatever the debounce state.
C16_IsActiveIsRawSatisfaction ==
    ~IsSingleKey(keys) => (IsActive(keys, pressed_keys) <=> SlotsHeld)

\* C16 witness: ctrl+r is satisfied by right-Ctrl and R, and is_active()
\* is True, while the debounce keeps the chord un-latched
C16_Witness ==
    /\ Cardinality(keys) = 2
    /\ held = {"CTRL_RIGHT", "R"}
    /\ IsActive(keys, pressed_keys)
    /\ ~chord_is_recording
    /\ clock - last_trigger_time < 300

\* C17: for a single-key chord, on_activate is dispatched only for a
\* press of the target key, and no two presses less than 300 ms apart are
\* both dispatched, with or without a release between them.
C17_OneRisingEdgeWithinDebounce ==
    [][(/\ InputStep
        /\ IsSingleKey(keys)
        /\ ev'.callback = "on_activate") =>
          /\ ev'.key = TargetKey(keys)
          /\ ev'.type = "KEY_PRESS"
          /\ last_activate_time # NoTime =>
                clock - last_activate_time >= 300]_vars

\* C17 witness: the target key was pressed again, held or not, less than
\* 300 ms after the press that was dispatched, and nothing was dispatched
C17_Witness ==
    /\ IsSingleKey(keys)
    /\ ev.key = TargetKey(keys)
    /\ ev.type = "KEY_PRESS"
    /\ ev.callback = "none"
    /\ ~ev.was_active
    /\ last_activate_time # NoTime
    /\ clock > last_activate_time
    /\ clock - last_activate_time < 300

\* C18: for every chord and every sequence and timing of key events, two
\* successive on_activate dispatches are at least 300 ms apart.
C18_RisingEdgesApart ==
    [][(InputStep /\ ev'.callback = "on_activate"
           /\ last_activate_time # NoTime) =>
          clock - last_activate_time >= DebounceDelayMs]_vars

\* C18 witness: a multi-key chord was dispatched a second time, 300 ms
\* after the first
C18_Witness ==
    /\ ~IsSingleKey(keys)
    /\ ev.callback = "on_activate"
    /\ last_activate_time = clock
    /\ last_trigger_time = clock
    /\ clock >= ClockStart + DebounceDelayMs

\* The chord whose only slot is the bare modifier "ctrl"
CtrlChord == keys = {AnyOf({"CTRL_LEFT", "CTRL_RIGHT"})}

CtrlHeld == "CTRL_LEFT" \in held \/ "CTRL_RIGHT" \in held

\* C19 (as claimed): the "ctrl" chord is latched exactly while left-Ctrl,
\* right-Ctrl or both are held.
C19_CtrlLatchedWhileHeld ==
    CtrlChord => (chord_is_recording <=> CtrlHeld)

\* C19 (amended): the "ctrl" chord latches at an update after which
\* left-Ctrl, right-Ctrl or both are held and at which at least 300 ms
\* have passed since last_trigger_time; once latched it stays latched
\* while one of them is held; and it un-latches only at the update in
\* which the last held Ctrl key is released.
C19_CtrlLatch ==
    /\ [](CtrlChord /\ chord_is_recording => CtrlHeld)
    /\ [][(InputStep /\ CtrlChord) =>
            /\ (CtrlHeld' /\ clock - last_trigger_time >= 300) =>
                  chord_is_recording'
            /\ (CtrlHeld' /\ chord_is_recording) => chord_is_recording'
            /\ (chord_is_recording /\ ~chord_is_recording') =>
                  /\ ~CtrlHeld'
                  /\ ev'.type = "KEY_RELEASE"
                  /\ ev'.key \in {"CTRL_LEFT", "CTRL_RIGHT"}
                  /\ held = {ev'.key} \cup (held \ {"CTRL_LEFT", "CTRL_RIGHT"})
           ]_vars

\* C19 witness: the chord latched on left-Ctrl, right-Ctrl was pressed as
\* well, left-Ctrl was released, and the chord is still latched
C19_Witness ==
    /\ CtrlChord
    /\ chord_is_recording
    /\ held = {"CTRL_RIGHT"}
    /\ ev.key = "CTRL_LEFT"
    /\ ev.type = "KEY_RELEASE"
    /\ ev.ret

\* A piece as the claim reads it: in lower case and without the
\* surrounding blanks
Normal(piece) ==
    CASE piece = "CTRL" -> "ctrl"
      [] piece = " shift" -> "shift"
      [] OTHER -> piece

\* The pieces of the string that name a modifier, a digit, a numpad key or
\* a KeyCode
Recognized(c) ==
    {Normal(c[i]) : i \in DOMAIN c} \ {"unknowntoken", ""}

\* C20 (as claimed): parse_key_combination returns one slot per distinct
\* recognized piece and nothing for an unrecognized one.
C20_OneSlotPerToken ==
    parse_returned =>
        Cardinality(parsed_keys) = Cardinality(Recognized(combination_string))

\* What the claim says a recognized piece denotes: a bare modifier the
\* left/right alternative-set, anything else the single key
Denotes(token) ==
    CASE token = "ctrl" -> AnyOf({"CTRL_LEFT", "CTRL_RIGHT"})
      [] token = "shift" -> AnyOf({"SHIFT_LEFT", "SHIFT_RIGHT"})
      [] token = "lctrl" -> Key("CTRL_LEFT")
      [] token = "ctrl_left" -> Key("CTRL_LEFT")
      [] token = "r" -> Key("R")
      [] token = "0" -> Key("ZERO")
      [] token = "zero" -> Key("ZERO")
      [] token = "numpad0" -> Key("NUMPAD_0")

\* C20 (amended): parse_key_combination returns the set of the slots that
\* the recognized pieces denote, one slot per distinct key or
\* alternative-set (pieces that name the same key, as "lctrl" and
\* "ctrl_left" or "0" and "zero", share one slot), and nothing for an
\* unrecognized piece; "ctrl+shift+r" yields 3 slots and
\* "ctrl+unknowntoken" yields 1.
C20_SlotsAreDenotedKeys ==
    parse_returned =>
        /\ parsed_keys =
              {Denotes(t) : t \in Recognized(combination_string)}
        /\ combination_string = <<"ctrl", " shift", "r">> =>
              /\ Cardinality(parsed_keys) = 3
              /\ Key("R") \in parsed_keys
        /\ combination_string = <<"CTRL", "unknowntoken">> =>
              parsed_keys = {AnyOf({"CTRL_LEFT", "CTRL_RIGHT"})}

\* C20 witness: "ctrl+ shift+r" was parsed into three slots
C20_Witness ==
    /\ parse_returned
    /\ combination_string = <<"ctrl", " shift", "r">>
    /\ Cardinality(parsed_keys) = 3

\* C24: on each input event KeyListener fires the chord's rising callback
\* iff is_recording changed from False to True during the event's update,
\* the falling callback iff it changed from True to False, and no callback
\* when is_recording did not change.
C24_CallbackIffLatchChanged ==
    [][InputStep =>
         /\ ev'.callback = "on_activate" <=>
               (~chord_is_recording /\ chord_is_recording')
         /\ ev'.callback = "on_deactivate" <=>
               (chord_is_recording /\ ~chord_is_recording')]_vars

\* C25: for a multi-key chord is_recording changes only during an update
\* in which is_active() changes, never during an update before and after
\* which the chord is satisfied.
C25_LatchChangesOnEdgeOnly ==
    [][(/\ InputStep
        /\ ~IsSingleKey(keys)
        /\ chord_is_recording' # chord_is_recording) =>
          IsActive(keys, pressed_keys') # IsActive(keys, pressed_keys)]_vars

\* C26: for a multi-key chord, after every update is_recording is True
\* only if every slot is satisfied by the keys held, and the update in
\* which the chord stops being satisfied un-latches it.
C26_LatchedImpliesSatisfied ==
    /\ [](~IsSingleKey(keys) /\ chord_is_recording => SlotsHeld)
    /\ [][(/\ InputStep
           /\ ~IsSingleKey(keys)
           /\ SlotsHeld
           /\ ~SlotsHeld') => ~chord_is_recording']_vars

\* C26 witness: ctrl+r was latched, R was released, and that update
\* un-latched the chord and returned False
C26_Witness ==
    /\ Cardinality(keys) = 2
    /\ ev.key = "R"
    /\ ev.type = "KEY_RELEASE"
    /\ ev.callback = "on_deactivate"
    /\ CtrlHeld
    /\ ~chord_is_recording
    /\ last_activate_time # NoTime

\* C27: for a single-key chord, update with a key other than the target
\* key returns the current latched value and leaves is_recording and
\* last_trigger_time unchanged.
C27_OtherKeyChangesNothing ==
    [][(/\ InputStep
        /\ IsSingleKey(keys)
        /\ ev'.key # TargetKey(keys)) =>
          /\ ev'.ret = chord_is_recording
          /\ chord_is_recording' = chord_is_recording
          /\ last_trigger_time' = last_trigger_time]_vars

\* The positions of run and _record_audio whose statement reads or writes
\* is_running or is_recording
FlagAccesses ==
    {"check_running", "set_recording", "ra_loop", "check_running2",
     "check_running3"}

\* Those of them that the code brackets with mutex.lock() and
\* mutex.unlock()
LockedAccesses == {"set_recording"}

\* The worker's step reads or writes is_running or is_recording: one of
\* the statements above, or the two assignments of the silence timeout
WorkerAccess ==
    /\ pc' # pc
    /\ pc \in FlagAccesses \/ (pc = "ra_timeout" /\ TimedOut)

\* C28: every read and write of is_recording and is_running, by the
\* worker and by the callers of stop_recording and stop, is made while
\* holding the mutex.
C28_FlagsUnderMutex ==
    [][WorkerAccess => pc \in LockedAccesses]_vars

\* The positions of the recording loop
LoopPositions ==
    {"ra_loop", "ra_wait", "ra_len", "ra_clear", "ra_vad", "ra_timeout",
     "ra_silence"}

\* C29: while the recording loop runs, every frame the callback has
\* delivered is in the recording or waits in the buffer to be appended:
\* none is dropped, overwritten or duplicated.
C29_EveryFrameRecordedOnce ==
    (stream_open /\ LoopCondition /\ pc \in LoopPositions) =>
        recording + Len(audio_buffer) = now

\* The backends that listen
StartedBackends ==
    {b \in BackendNames : Started(key_listener.state[b])}

\* C22: after any sequence of KeyListener construction, start, stop and
\* update_backend calls, at most one backend is started, and it is the
\* active backend.
C22_OnlyActiveBackendStarted ==
    key_listener.built =>
        StartedBackends \subseteq {key_listener.active_backend}

\* The configured backend is not available or is not a backend's name,
\* and some backend is available
FallsBack ==
    /\ input_backend # "auto"
    /\ input_backend \notin available
    /\ available # {}

\* The step is a construction of the KeyListener or a call of
\* update_backend (the configuration stands still)
SelectionStep ==
    /\ input_backend' = input_backend
    /\ kl_call'.op \in {"init", "update_backend"}

\* C23: when the configured input_backend names a backend that is not
\* available, or is an unknown name, and a backend is available, the
\* KeyListener's constructor and update_backend do not raise and select
\* the first available backend, leaving the listener as auto mode does.
C23_UnavailableFallsBackToAuto ==
    [][(FallsBack /\ SelectionStep) =>
          /\ kl_call'.raised = "none"
          /\ key_listener'.active_backend =
                CHOOSE b \in available :
                    \A i \in DOMAIN BackendClasses :
                        BackendClasses[i] \in available =>
                            \E j \in 1..i : BackendClasses[j] = b
          /\ key_listener' =
                IF kl_call'.op = "init"
                THEN KeyListenerInit(available, "auto")
                ELSE SelectBackendFromConfig(key_listener, "auto")]_vars

\* C23 witness: the listener was constructed with input_backend = evdev,
\* evdev not being available, and pynput is the active backend
C23_Witness ==
    /\ available = {"pynput"}
    /\ input_backend = "evdev"
    /\ kl_call = [op |-> "init", raised |-> "none", preferred |-> "evdev"]
    /\ key_listener.built
    /\ key_listener.active_backend = "pynput"

\* C21: the active backend's start() is never invoked while the backend
\* is started: each start() is the first call or follows a stop() with no
\* other start() in between.
C21_NoDoubleStart == ~key_listener.double_start

\* C30: in continuous mode every on_transcription_complete, which handles
\* the transcript a session emitted, starts a new recording session,
\* whenever the worker returns and on every path through the handler.
C30_ContinuousRestarts ==
    [][(/\ recording_mode = "continuous"
        /\ result_queued
        /\ ~result_queued') =>
          /\ sessions' = sessions + 1
          /\ result_thread' = "running"
          /\ app_event'.started]_vars

\* The frames the loop did not examine: the initial frames it skipped
SkippedFrames == InitialFramesToSkip - initial_frames_to_skip

\* C31: the leading initial_frames_to_skip frames are discarded: the
\* recording, whose duration is measured and which is handed to
\* transcribe, holds none of them, so it is no longer than the frames
\* delivered less the frames skipped.
C31_SkippedFramesNotRecorded ==
    stream_open => recording + SkippedFrames <= now

\* C32: an exception of the media pause at the start of a session is
\* swallowed: the session still emits 'recording' and records, and does
\* not end in the 'error' state because of it.
C32_PauseFailureSwallowed ==
    (pc = "done" /\ exc = "pause_media") =>
        /\ \E i \in DOMAIN RunStatuses : RunStatuses[i].status = "recording"
        /\ \A i \in DOMAIN RunStatuses : RunStatuses[i].status # "error"

\* C38: when the media was paused at the start of a session, resume_media
\* is called before the session ends, on every terminal path.
C38_PausedMediaResumed ==
    (pc = "done" /\ media_paused) => resume_calls > 0

\* C40: every KeyCode member named when the evdev backend builds its
\* scancode table is a member of the enumeration, so a start() of the
\* KeyListener whose active backend is evdev does not raise and leaves the
\* polling thread of the backend started.
C40_EvdevStartCompletes ==
    (kl_call.op = "start" /\ key_listener.active_backend = "evdev") =>
        /\ KeyMapMembers("evdev") \subseteq KeyCodes
        /\ kl_call.raised = "none"
        /\ key_listener.state["evdev"].handle

\* The native key events of a batch whose key has a mapping
MappedEvents(batch) ==
    SelectSeq(batch, LAMBDA e : e.type = "EV_KEY"
                                  /\ e.scancode \in {"KEY_LEFTCTRL", "KEY_R"})

\* The native event that pynput reported has a mapping
MappedKey(key) ==
    \/ key.cls = "Key" /\ key.name = "ctrl_l"
    \/ key.cls = "KeyCode" /\ (key.name = "r" \/ key.vk \in {48, 96})
    \/ key.cls = "Button" /\ key.name = "left"

C34_CallbacksAlternate ==
    /\ dispatched[2] = "on_deactivate" => dispatched[1] = "on_activate"
    /\ dispatched[2] = "on_activate" => dispatched[1] # "on_activate"

\* C39: a chord without keys never triggers a callback, whatever events
\* arrive (the clock being far beyond the debounce delay).
C39_EmptyChordNeverFires ==
    keys = {} => ev.callback = "none" /\ dispatched = NoCallbacks

\* C39 witness: the chord without keys handled a key press, which latched
\* it
C39_Witness ==
    /\ keys = {}
    /\ ev.type = "KEY_PRESS"
    /\ ev.was_active
    /\ ev.ret
    /\ chord_is_recording

\* The ResultThreads whose run() has not returned
RunningThreads == lost_threads + (IF ResultThreadIsRunning THEN 1 ELSE 0)

\* C35: at most one ResultThread is running at any time, under any
\* interleaving of the listener thread (chord callbacks) with the main
\* thread (on_transcription_complete).
C35_OneResultThread == RunningThreads <= 1

\* C36: the LLM flags that on_transcription_complete applies to a
\* transcript are the flags of the activation that started the session
\* which produced it (the flags matter when an LLM processor exists, and
\* is_instruction_mode when use_llm is set).
C36_FlagsOfStartingActivation ==
    [][(result_queued /\ ~result_queued' /\ llm_processor) =>
          /\ use_llm = result_flags.use_llm
          /\ use_llm =>
               is_instruction_mode = result_flags.is_instruction_mode]_vars

\* The result was passed to input_simulator.typewrite
Typewritten == app_event.path = "typed"

\* C37: every transcript delivered to on_transcription_complete is typed,
\* LLM-processed or as the original text, and the key listener is started
\* afterwards on every path.
C37_EveryTranscriptTyped ==
    app_event.handler = "on_transcription_complete" =>
        /\ Typewritten
        /\ key_listener.state[key_listener.active_backend].handle

====
